---------------------------- MODULE Spec2Model ----------------------------
(***************************************************************************)
(* Paper of the day: the workflow that folds a day's arXiv candidates into *)
(* one leading paper with an oracle-backed classifier and comparator, and  *)
(* the Paper entity with its lazily resolved abstract and text.            *)
(*                                                                         *)
(* Three iterations of the workflow are modelled, selected by `variant`:   *)
(*   "retry"  : src/paper-of-the-day.ts lines 1-254 (streaming oracle,     *)
(*              comparator with one clarification request)                 *)
(*   "schema" : src/paper-of-the-day.ts lines 258-538 (blocking oracle     *)
(*              with a declared JSON schema)                               *)
(*   "plain"  : src/paper_of_the_day.ts (streaming oracle, no retry)       *)
(*                                                                         *)
(* Text is a sequence of one-character strings, so that startsWith, trim,  *)
(* the regular-expression replacements and JSON.parse are computed on the  *)
(* characters as the code computes them.                                   *)
(***************************************************************************)
EXTENDS Integers, Sequences, FiniteSets, TLC

(***************************************************************************)
(* Bounds of the model.                                                    *)
(***************************************************************************)
\* longest candidate list returned by getArxivIdsForDate
MaxCands == 3
\* number of abstract()/text() calls issued on the Paper entity under test
MaxCalls == 3
\* the longest list of papers handed to marshalPapers
MaxMarshal == 2
\* the largest number of navigation entries of a listing document
MaxNav == 1
\* the largest number of element children of dl#articles
MaxNodes == 4

\* the largest number of navigation entries of a document made to test the
\* scan of the navigation entries
MaxNavScan == 2

\* the largest number of paper entries of a document made to test the walk
\* over the siblings of the heading
MaxWalk == 3

\* the largest number of identifiers of a listing read by a run of the
\* scheduled process
MaxCronCands == 2

\* the number of midnights the scheduled process lives through
MaxDays == 1

\* the largest number of identifiers of a listing read by the earliest
\* iteration of the workflow
MaxEarlyCands == 4

(***************************************************************************)
(* JavaScript string operations used by the decision functions.            *)
(***************************************************************************)
\* the characters matched by \s that occur in the modelled texts
WS == {" ", "\n", "\t", "\r"}

UpperCase == <<"A","B","C","D","E","F","G","H","I","J","K","L","M",
               "N","O","P","Q","R","S","T","U","V","W","X","Y","Z">>

LowerCase == <<"a","b","c","d","e","f","g","h","i","j","k","l","m",
               "n","o","p","q","r","s","t","u","v","w","x","y","z">>

\* String.prototype.toLowerCase on one character
LowerChar(c) ==
    IF \E i \in 1..26 : UpperCase[i] = c
    THEN LowerCase[CHOOSE i \in 1..26 : UpperCase[i] = c]
    ELSE c

\* String.prototype.toLowerCase
toLowerCase(s) == [i \in 1..Len(s) |-> LowerChar(s[i])]

\* String.prototype.startsWith
startsWith(s, p) == Len(s) >= Len(p) /\ SubSeq(s, 1, Len(p)) = p

\* String.prototype.endsWith
endsWith(s, p) == Len(s) >= Len(p) /\ SubSeq(s, Len(s) - Len(p) + 1, Len(s)) = p

RECURSIVE trimStart(_)
trimStart(s) ==
    IF s # <<>> /\ Head(s) \in WS THEN trimStart(Tail(s)) ELSE s

RECURSIVE trimEnd(_)
trimEnd(s) ==
    IF s # <<>> /\ s[Len(s)] \in WS THEN trimEnd(SubSeq(s, 1, Len(s) - 1)) ELSE s

\* String.prototype.trim
trim(s) == trimEnd(trimStart(s))

\* s.replace(/\s+/g, ' ') : every maximal run of whitespace becomes one space
RECURSIVE collapseWhitespace(_)
collapseWhitespace(s) ==
    IF s = <<>> THEN <<>>
    ELSE IF Head(s) \in WS THEN <<" ">> \o collapseWhitespace(trimStart(s))
    ELSE <<Head(s)>> \o collapseWhitespace(Tail(s))

\* the index of the last occurrence of p in s at or before position i, 0 if none
RECURSIVE lastIndexOf(_, _, _)
lastIndexOf(s, p, i) ==
    IF i < 1 THEN 0
    ELSE IF i + Len(p) - 1 <= Len(s) /\ SubSeq(s, i, i + Len(p) - 1) = p THEN i
    ELSE lastIndexOf(s, p, i - 1)

\* s.split(sep).pop() : the text after the last occurrence of sep (all of s if none)
splitPop(s, sep) ==
    LET k == lastIndexOf(s, sep, Len(s))
    IN  IF k = 0 THEN s ELSE SubSeq(s, k + Len(sep), Len(s))

\* the index of the first occurrence of p in s at or after position i, 0 if none
RECURSIVE indexOf(_, _, _)
indexOf(s, p, i) ==
    IF i + Len(p) - 1 > Len(s) THEN 0
    ELSE IF SubSeq(s, i, i + Len(p) - 1) = p THEN i
    ELSE indexOf(s, p, i + 1)

\* s.replace(p, '') with a string pattern: the first occurrence of p is removed
replaceFirst(s, p) ==
    LET k == indexOf(s, p, 1)
    IN  IF k = 0 THEN s ELSE SubSeq(s, 1, k - 1) \o SubSeq(s, k + Len(p), Len(s))

THINK_END == <<"<","/","t","h","i","n","k",">">>

\* the grave accent character, which a TLA+ string cannot hold, by its code point
BACKTICK == "U+0060"

FENCE_OPEN == <<BACKTICK, BACKTICK, BACKTICK, "j","s","o","n","\n">>

FENCE == <<BACKTICK, BACKTICK, BACKTICK>>

\* s.replace(/^FENCE_OPEN|FENCE$/g, '') : a leading json fence and a trailing fence are removed
stripFences(s) ==
    LET a == IF startsWith(s, FENCE_OPEN) THEN SubSeq(s, Len(FENCE_OPEN) + 1, Len(s)) ELSE s
    IN  IF endsWith(a, FENCE) THEN SubSeq(a, 1, Len(a) - Len(FENCE)) ELSE a

(***************************************************************************)
(* JavaScript values and JSON.parse.  A value is a record with a type tag; *)
(* the fields that do not belong to the tag hold defaults.  The parser     *)
(* covers objects, arrays, strings with the escapes of the quote, the      *)
(* backslash, the slash, newline, return and tab, integers and the three   *)
(* literals; the modelled texts stay inside that fragment (no fraction, no *)
(* exponent, no unicode escape).                                           *)
(***************************************************************************)
JSValue(t, b, n, str, kv) == [t |-> t, b |-> b, n |-> n, s |-> str, kv |-> kv]

JSUndefined == JSValue("undefined", FALSE, 0, <<>>, <<>>)

JSNull == JSValue("null", FALSE, 0, <<>>, <<>>)

JSBool(b) == JSValue("boolean", b, 0, <<>>, <<>>)

JSNumber(n) == JSValue("number", FALSE, n, <<>>, <<>>)

JSString(str) == JSValue("string", FALSE, 0, str, <<>>)

\* an object: its members <<key, value>> in source order
JSObject(kv) == JSValue("object", FALSE, 0, <<>>, kv)

\* an array: its elements as members with the empty key
JSArray(kv) == JSValue("array", FALSE, 0, <<>>, kv)

\* ToBoolean: what the operators ! and ?: and the if statement see
Truthy(v) ==
    CASE v.t = "boolean" -> v.b
      [] v.t = "number" -> v.n # 0
      [] v.t = "string" -> v.s # <<>>
      [] v.t \in {"object", "array"} -> TRUE
      [] OTHER -> FALSE

\* the last member of kv with the given key, else undefined
RECURSIVE lookupMember(_, _, _)
lookupMember(kv, key, i) ==
    IF i < 1 THEN JSUndefined
    ELSE IF kv[i][1] = key THEN kv[i][2]
    ELSE lookupMember(kv, key, i - 1)

\* v.key : [throws, v]; reading a property of null or undefined is a TypeError
GetProperty(v, key) ==
    IF v.t \in {"null", "undefined"} THEN [throws |-> TRUE, v |-> JSUndefined]
    ELSE IF v.t = "object" THEN [throws |-> FALSE, v |-> lookupMember(v.kv, key, Len(v.kv))]
    ELSE [throws |-> FALSE, v |-> JSUndefined]

Digits == <<"0","1","2","3","4","5","6","7","8","9">>

IsDigit(c) == \E i \in 1..10 : Digits[i] = c

DigitVal(c) == (CHOOSE i \in 1..10 : Digits[i] = c) - 1

RECURSIVE skipWS(_, _)
skipWS(s, i) == IF i <= Len(s) /\ s[i] \in WS THEN skipWS(s, i + 1) ELSE i

ParseFail == [ok |-> FALSE, v |-> JSUndefined, next |-> 0]

ParseOk(v, next) == [ok |-> TRUE, v |-> v, next |-> next]

RECURSIVE scanDigits(_, _, _)
scanDigits(s, i, acc) ==
    IF i <= Len(s) /\ IsDigit(s[i])
    THEN scanDigits(s, i + 1, acc * 10 + DigitVal(s[i]))
    ELSE [n |-> acc, next |-> i]

\* -? (0 | [1-9][0-9]*)
parseNumber(s, i) ==
    LET neg == i <= Len(s) /\ s[i] = "-"
        j == IF neg THEN i + 1 ELSE i
    IN  IF j > Len(s) \/ ~IsDigit(s[j]) THEN ParseFail
        ELSE IF s[j] = "0" THEN ParseOk(JSNumber(0), j + 1)
        ELSE LET d == scanDigits(s, j, 0)
             IN  ParseOk(JSNumber(IF neg THEN 0 - d.n ELSE d.n), d.next)

\* the string whose body starts at i, the characters read so far in acc;
\* a backslash introduces an escape, a raw control character is an error
RECURSIVE scanString(_, _, _)
scanString(s, i, acc) ==
    IF i > Len(s) THEN ParseFail
    ELSE IF s[i] = "\"" THEN ParseOk(JSString(acc), i + 1)
    ELSE IF s[i] \in {"\n", "\r", "\t"} THEN ParseFail
    ELSE IF s[i] # "\\" THEN scanString(s, i + 1, Append(acc, s[i]))
    ELSE IF i + 1 > Len(s) THEN ParseFail
    ELSE IF s[i + 1] \in {"\"", "\\", "/"} THEN scanString(s, i + 2, Append(acc, s[i + 1]))
    ELSE IF s[i + 1] = "n" THEN scanString(s, i + 2, Append(acc, "\n"))
    ELSE IF s[i + 1] = "r" THEN scanString(s, i + 2, Append(acc, "\r"))
    ELSE IF s[i + 1] = "t" THEN scanString(s, i + 2, Append(acc, "\t"))
    ELSE ParseFail

parseString(s, i) == scanString(s, i + 1, <<>>)

LIT_TRUE == <<"t","r","u","e">>

LIT_FALSE == <<"f","a","l","s","e">>

LIT_NULL == <<"n","u","l","l">>

RECURSIVE parseValue(_, _)
RECURSIVE parseMembers(_, _, _)
RECURSIVE parseElements(_, _, _)
parseValue(s, i0) ==
    LET i == skipWS(s, i0)
        rest == SubSeq(s, i, Len(s))
    IN  IF i > Len(s) THEN ParseFail
        ELSE IF s[i] = "{" THEN
            LET j == skipWS(s, i + 1)
            IN  IF j <= Len(s) /\ s[j] = "}" THEN ParseOk(JSObject(<<>>), j + 1)
                ELSE parseMembers(s, j, <<>>)
        ELSE IF s[i] = "[" THEN
            LET j == skipWS(s, i + 1)
            IN  IF j <= Len(s) /\ s[j] = "]" THEN ParseOk(JSArray(<<>>), j + 1)
                ELSE parseElements(s, j, <<>>)
        ELSE IF s[i] = "\"" THEN parseString(s, i)
        ELSE IF startsWith(rest, LIT_TRUE) THEN ParseOk(JSBool(TRUE), i + 4)
        ELSE IF startsWith(rest, LIT_FALSE) THEN ParseOk(JSBool(FALSE), i + 5)
        ELSE IF startsWith(rest, LIT_NULL) THEN ParseOk(JSNull, i + 4)
        ELSE parseNumber(s, i)

\* "key" : value ( , members | } ), the members read so far in acc
parseMembers(s, i, acc) ==
    IF i > Len(s) \/ s[i] # "\"" THEN ParseFail
    ELSE LET k == parseString(s, i)
         IN  IF ~k.ok THEN ParseFail
             ELSE LET c == skipWS(s, k.next)
                  IN  IF c > Len(s) \/ s[c] # ":" THEN ParseFail
                      ELSE LET v == parseValue(s, c + 1)
                           IN  IF ~v.ok THEN ParseFail
                               ELSE LET e == skipWS(s, v.next)
                                        acc2 == Append(acc, <<k.v.s, v.v>>)
                                    IN  IF e > Len(s) THEN ParseFail
                                        ELSE IF s[e] = "}" THEN ParseOk(JSObject(acc2), e + 1)
                                        ELSE IF s[e] = "," THEN parseMembers(s, skipWS(s, e + 1), acc2)
                                        ELSE ParseFail

\* value ( , elements | ] ), the elements read so far in acc
parseElements(s, i, acc) ==
    LET v == parseValue(s, i)
    IN  IF ~v.ok THEN ParseFail
        ELSE LET e == skipWS(s, v.next)
                 acc2 == Append(acc, <<<<>>, v.v>>)
             IN  IF e > Len(s) THEN ParseFail
                 ELSE IF s[e] = "]" THEN ParseOk(JSArray(acc2), e + 1)
                 ELSE IF s[e] = "," THEN parseElements(s, skipWS(s, e + 1), acc2)
                 ELSE ParseFail

\* JSON.parse(text) : [throws, v]; throws stands for the SyntaxError
JSONparse(s) ==
    LET r == parseValue(s, 1)
    IN  IF r.ok /\ skipWS(s, r.next) > Len(s)
        THEN [throws |-> FALSE, v |-> r.v]
        ELSE [throws |-> TRUE, v |-> JSUndefined]

\* faulty variant: the text is written between the quotes as it stands
stringifyString_raw(str) == <<"\"">> \o str \o <<"\"">>

\* JSON.stringify of a string: the quote, the backslash and the control
\* characters are escaped
RECURSIVE escapeString(_, _)
escapeString(str, i) ==
    IF i > Len(str) THEN <<>>
    ELSE (CASE str[i] = "\"" -> <<"\\", "\"">>
            [] str[i] = "\\" -> <<"\\", "\\">>
            [] str[i] = "\n" -> <<"\\", "n">>
            [] str[i] = "\r" -> <<"\\", "r">>
            [] str[i] = "\t" -> <<"\\", "t">>
            [] OTHER -> <<str[i]>>) \o escapeString(str, i + 1)

stringifyString(str) == <<"\"">> \o escapeString(str, 1) \o <<"\"">>

\* the decimal digits of a natural number
RECURSIVE digitsOf(_)
digitsOf(n) ==
    IF n < 10 THEN <<Digits[n + 1]>>
    ELSE Append(digitsOf(n \div 10), Digits[(n % 10) + 1])

\* JSON.stringify of an integer
stringifyNumber(n) == IF n < 0 THEN <<"-">> \o digitsOf(0 - n) ELSE digitsOf(n)

\* a key that is an array index: the canonical text of an integer from 0 to
\* 2^32 - 2 (no sign, no leading zero)
MaxIndexText == <<"4","2","9","4","9","6","7","2","9","4">>

\* of two texts of digits of one length, the first is the smaller number
digitsLess(a, b) ==
    \E i \in 1..Len(a) :
        /\ DigitVal(a[i]) < DigitVal(b[i])
        /\ \A j \in 1..(i - 1) : a[j] = b[j]

isArrayIndex(key) ==
    /\ Len(key) \in 1..10
    /\ \A i \in 1..Len(key) : IsDigit(key[i])
    /\ Len(key) > 1 => key[1] # "0"
    /\ Len(key) = 10 => (key = MaxIndexText \/ digitsLess(key, MaxIndexText))

\* of two array indices, the first is the smaller
indexLess(a, b) == Len(a) < Len(b) \/ (Len(a) = Len(b) /\ digitsLess(a, b))

\* the array indices of a set, in ascending order
RECURSIVE ascendingIndices(_)
ascendingIndices(S) ==
    IF S = {} THEN <<>>
    ELSE LET least == CHOOSE x \in S : \A y \in S \ {x} : indexLess(x, y)
         IN  <<least>> \o ascendingIndices(S \ {least})

\* the keys of the members from position i on that are no array indices,
\* each once, in the order in which the properties were created
RECURSIVE stringKeys(_, _)
stringKeys(kv, i) ==
    IF i > Len(kv) THEN <<>>
    ELSE IF isArrayIndex(kv[i][1]) \/ \E j \in 1..(i - 1) : kv[j][1] = kv[i][1]
    THEN stringKeys(kv, i + 1)
    ELSE <<kv[i][1]>> \o stringKeys(kv, i + 1)

\* OrdinaryOwnPropertyKeys: the array indices in ascending order, then the
\* other keys in the order of creation
ownPropertyKeys(kv) ==
    ascendingIndices({kv[i][1] : i \in {j \in 1..Len(kv) : isArrayIndex(kv[j][1])}})
    \o stringKeys(kv, 1)

\* JSON.stringify of a value; an array writes null for an undefined element,
\* an object writes its properties in the order of ownPropertyKeys, each key
\* once with its last value, and leaves out a member whose value is undefined
RECURSIVE stringifyValue(_)
RECURSIVE stringifyElements(_, _)
RECURSIVE stringifyMembers(_, _, _, _)
stringifyValue(v) ==
    CASE v.t = "string" -> stringifyString(v.s)
      [] v.t = "number" -> stringifyNumber(v.n)
      [] v.t = "boolean" -> (IF v.b THEN LIT_TRUE ELSE LIT_FALSE)
      [] v.t = "null" -> LIT_NULL
      [] v.t = "array" -> <<"[">> \o stringifyElements(v.kv, 1) \o <<"]">>
      [] v.t = "object" ->
            <<"{">> \o stringifyMembers(v.kv, ownPropertyKeys(v.kv), 1, FALSE) \o <<"}">>
      [] OTHER -> <<>>

stringifyElements(kv, i) ==
    IF i > Len(kv) THEN <<>>
    ELSE (IF i > 1 THEN <<",">> ELSE <<>>)
         \o (IF kv[i][2].t = "undefined" THEN LIT_NULL ELSE stringifyValue(kv[i][2]))
         \o stringifyElements(kv, i + 1)

\* the members of the keys from position i on; written tells whether a
\* member precedes
stringifyMembers(kv, keys, i, written) ==
    IF i > Len(keys) THEN <<>>
    ELSE LET value == lookupMember(kv, keys[i], Len(kv))
         IN  IF value.t = "undefined" THEN stringifyMembers(kv, keys, i + 1, written)
             ELSE (IF written THEN <<",">> ELSE <<>>)
                  \o stringifyString(keys[i]) \o <<":">> \o stringifyValue(value)
                  \o stringifyMembers(kv, keys, i + 1, TRUE)

(***************************************************************************)
(* The decision oracle.  A response is the outcome of one                  *)
(* client.chat.completions.create call: err = "request" when the call      *)
(* itself rejects (service unreachable, timeout), err = "stream" when the  *)
(* iteration of the stream rejects, else the chunks delivered.  A chunk    *)
(* carries choices[0].delta.content and .reasoning_content, the empty text *)
(* standing for an absent field (the code reads both with || '').  A       *)
(* blocking response is one chunk: choices[0].message.                     *)
(***************************************************************************)
Chunk(content, reasoning) == [content |-> content, reasoning_content |-> reasoning]

Response(err, chunks) == [err |-> err, chunks |-> chunks]

\* for await (const chunk of stream) completion += chunk.choices[0]?.delta?.content || ''
RECURSIVE accumulateContent(_)
accumulateContent(chunks) ==
    IF chunks = <<>> THEN <<>>
    ELSE Head(chunks).content \o accumulateContent(Tail(chunks))

RECURSIVE accumulateReasoning(_)
accumulateReasoning(chunks) ==
    IF chunks = <<>> THEN <<>>
    ELSE Head(chunks).reasoning_content \o accumulateReasoning(Tail(chunks))

\* response.choices[0]?.message.content || ''
messageContent(resp) ==
    IF resp.chunks = <<>> THEN <<>> ELSE resp.chunks[1].content

\* the outcome of an async function: it rejects (throws) or resolves to v
Throws == [throws |-> TRUE, v |-> JSUndefined]

Returns(v) == [throws |-> FALSE, v |-> v]

TXT_yes == <<"y","e","s">>

TXT_1 == <<"1">>

TXT_2 == <<"2">>

TXT_result == <<"r","e","s","u","l","t">>

STAR2 == <<"*", "*">>

(***************************************************************************)
(* alignedWithCentML: the relevance classifier.                            *)
(***************************************************************************)
\* streaming classifier: completion.toLowerCase().startsWith("yes")
alignedStreaming(resp) ==
    IF resp.err # "none" THEN Throws
    ELSE Returns(JSBool(startsWith(toLowerCase(accumulateContent(resp.chunks)), TXT_yes)))

\* schema classifier: JSON.parse(completion).result, returned as parsed
alignedSchema(resp) ==
    IF resp.err # "none" THEN Throws
    ELSE LET result == JSONparse(messageContent(resp))
         IN  IF result.throws THEN Throws ELSE GetProperty(result.v, TXT_result)

alignedWithCentML(v, resp) ==
    IF v = "schema" THEN alignedSchema(resp) ELSE alignedStreaming(resp)

(***************************************************************************)
(* mostImpactful: the pairwise comparator.  The outcome of a request is    *)
(* status "throws", "retry" (the clarification request is issued next) or  *)
(* "return" with pick = 1 (paper1) or 2 (paper2).                          *)
(***************************************************************************)
CmpThrows == [status |-> "throws", pick |-> 0]

CmpRetry == [status |-> "retry", pick |-> 0]

CmpReturn(pick) == [status |-> "return", pick |-> pick]

\* let answer = completion.replace(/\s+/g, ' ').trim()
cleanAnswer(completion) == trim(collapseWhitespace(completion))

\* !answer.startsWith("1") && !answer.startsWith("2")
invalidAnswer(answer) == ~startsWith(answer, TXT_1) /\ ~startsWith(answer, TXT_2)

\* streaming comparator with retry, up to the first validity test
mostImpactfulFirstRetry(resp) ==
    IF resp.err # "none" THEN CmpThrows
    ELSE LET answer == cleanAnswer(accumulateContent(resp.chunks))
         IN  IF invalidAnswer(answer) THEN CmpRetry
             ELSE CmpReturn(IF startsWith(answer, TXT_1) THEN 1 ELSE 2)

\* the answer tested after the clarification request: the code cleans
\* completion, the text of the first request, not updatedCompletion
retryAnswer(completion, updatedCompletion) == cleanAnswer(completion)

\* faulty variant: the second validity test is left out and the clarification
\* answer is read as it stands
mostImpactfulSecondRetry_unchecked(completion, resp) ==
    IF resp.err # "none" THEN CmpThrows
    ELSE LET answer == cleanAnswer(accumulateContent(resp.chunks))
         IN  CmpReturn(IF startsWith(answer, TXT_1) THEN 1 ELSE 2)

\* streaming comparator with retry, from the clarification response on
mostImpactfulSecondRetry(completion, resp) ==
    IF resp.err # "none" THEN CmpThrows
    ELSE LET answer == retryAnswer(completion, accumulateContent(resp.chunks))
         IN  IF invalidAnswer(answer) THEN CmpThrows
             ELSE CmpReturn(IF startsWith(answer, TXT_1) THEN 1 ELSE 2)

\* schema comparator: result.result === 1 ? paper1 : paper2
mostImpactfulSchema(resp) ==
    IF resp.err # "none" THEN CmpThrows
    ELSE LET result == JSONparse(messageContent(resp))
         IN  IF result.throws THEN CmpThrows
             ELSE LET r == GetProperty(result.v, TXT_result)
                  IN  IF r.throws THEN CmpThrows
                      ELSE CmpReturn(IF r.v = JSNumber(1) THEN 1 ELSE 2)

\* streaming comparator without retry: the text after the last think tag
mostImpactfulPlain(resp) ==
    IF resp.err # "none" THEN CmpThrows
    ELSE LET rawAnswer == splitPop(accumulateContent(resp.chunks), THINK_END)
             answer == cleanAnswer(rawAnswer)
         IN  CmpReturn(IF startsWith(answer, TXT_1) THEN 1 ELSE 2)

mostImpactfulFirst(v, resp) ==
    CASE v = "retry" -> mostImpactfulFirstRetry(resp)
      [] v = "schema" -> mostImpactfulSchema(resp)
      [] OTHER -> mostImpactfulPlain(resp)

(***************************************************************************)
(* summarize, and the workflow's handling of its result.                   *)
(***************************************************************************)
summarizeRetry(resp) ==
    IF resp.err # "none" THEN Throws
    ELSE Returns(JSString(stripFences(trim(accumulateContent(resp.chunks)))))

summarizePlain(resp) ==
    IF resp.err # "none" THEN Throws
    ELSE Returns(JSString(stripFences(trim(splitPop(accumulateContent(resp.chunks), THINK_END)))))

summarizeSchema(resp) ==
    IF resp.err # "none" THEN Throws
    ELSE LET result == JSONparse(messageContent(resp))
         IN  IF result.throws THEN Throws ELSE GetProperty(result.v, TXT_result)

summarize(v, resp) ==
    CASE v = "retry" -> summarizeRetry(resp)
      [] v = "schema" -> summarizeSchema(resp)
      [] OTHER -> summarizePlain(resp)

\* schema workflow: summary = summary.replace("**", ""), a TypeError unless
\* summary is a string; the streaming workflows use the text as returned
postSummary(v, summary) ==
    IF v # "schema" THEN Returns(summary)
    ELSE IF summary.t # "string" THEN Throws
    ELSE Returns(JSString(replaceFirst(summary.s, STAR2)))

(***************************************************************************)
(* Extraction of the identifiers of one date from the parsed listing       *)
(* document (getArxivIdsForDate after its fetch; extractArxivIdsForDate of *)
(* the earliest iterations).  A document is                                *)
(*   parsed   : parseFromString returned a document                        *)
(*   nav      : the textContent of the elements matching "ul li a"         *)
(*   articles : the element children of dl#articles in document order,     *)
(*              each with its tag, its textContent (h3) and the href       *)
(*              attributes of the links inside it (dt)                     *)
(* The target date is given by getFullYear(), getMonth() and getDate().    *)
(***************************************************************************)
\* text.split('(')[0]
beforeParen(s) ==
    LET k == indexOf(s, <<"(">>, 1)
    IN  IF k = 0 THEN s ELSE SubSeq(s, 1, k - 1)

\* [A-Za-z]
Letters == {UpperCase[i] : i \in 1..26} \cup {LowerCase[i] : i \in 1..26}

IsLetter(c) == c \in Letters

NoMatch == [ok |-> FALSE, day |-> <<>>, monthStr |-> <<>>, year |-> <<>>]

\* /(\d{1,2})\s+([A-Za-z]{3})\s+(\d{4})/ tried at position i with a day of nd digits
matchDateAt(s, i, nd) ==
    LET b == skipWS(s, i + nd)
        d == skipWS(s, b + 3)
    IN  IF /\ i + nd - 1 <= Len(s)
           /\ \A k \in i..(i + nd - 1) : IsDigit(s[k])
           /\ b > i + nd
           /\ b + 2 <= Len(s)
           /\ \A k \in b..(b + 2) : IsLetter(s[k])
           /\ d > b + 3
           /\ d + 3 <= Len(s)
           /\ \A k \in d..(d + 3) : IsDigit(s[k])
        THEN [ok |-> TRUE, day |-> SubSeq(s, i, i + nd - 1),
              monthStr |-> SubSeq(s, b, b + 2), year |-> SubSeq(s, d, d + 3)]
        ELSE NoMatch

\* dateText.match(...): the leftmost match, the day taking two digits if it can
RECURSIVE dateMatch(_, _)
dateMatch(s, i) ==
    IF i > Len(s) THEN NoMatch
    ELSE IF ~IsDigit(s[i]) THEN dateMatch(s, i + 1)
    ELSE LET two == matchDateAt(s, i, 2)
             one == matchDateAt(s, i, 1)
         IN  IF two.ok THEN two
             ELSE IF one.ok THEN one
             ELSE dateMatch(s, i + 1)

Months == <<<<"J","a","n">>, <<"F","e","b">>, <<"M","a","r">>, <<"A","p","r">>, <<"M","a","y">>, <<"J","u","n">>, <<"J","u","l">>, <<"A","u","g">>, <<"S","e","p">>, <<"O","c","t">>, <<"N","o","v">>, <<"D","e","c">>>>

\* faulty variant: the month name is looked up without regard to letter case
monthNumber_caseless(monthStr) ==
    IF \E i \in 1..Len(Months) : toLowerCase(Months[i]) = toLowerCase(monthStr)
    THEN CHOOSE i \in 1..Len(Months) : toLowerCase(Months[i]) = toLowerCase(monthStr)
    ELSE 0

\* [...].indexOf(monthStr) + 1
monthNumber(monthStr) ==
    IF \E i \in 1..Len(Months) : Months[i] = monthStr
    THEN CHOOSE i \in 1..Len(Months) : Months[i] = monthStr
    ELSE 0

\* parseInt of a text of digits
parseInt(digits) == scanDigits(digits, 1, 0).n

\* the callback of dateEntries.find
entryMatches(text, targetDate) ==
    LET dateText == trim(beforeParen(trim(text)))
        m == dateMatch(dateText, 1)
    IN  /\ m.ok
        /\ parseInt(m.year) = targetDate.year
        /\ monthNumber(m.monthStr) = targetDate.month + 1
        /\ parseInt(m.day) = targetDate.date

\* faulty variant: the last matching entry is taken
RECURSIVE findDateEntry_last(_, _, _)
findDateEntry_last(nav, i, targetDate) ==
    IF i > Len(nav) THEN 0
    ELSE LET later == findDateEntry_last(nav, i + 1, targetDate)
         IN  IF later # 0 THEN later
             ELSE IF entryMatches(nav[i], targetDate) THEN i
             ELSE 0

\* dateEntries.find(...) from position i: the position of the first matching
\* entry, 0 if none
RECURSIVE findDateEntry(_, _, _)
findDateEntry(nav, i, targetDate) ==
    IF i > Len(nav) THEN 0
    ELSE IF entryMatches(nav[i], targetDate) THEN i
    ELSE findDateEntry(nav, i + 1, targetDate)

matchingDateEntry(nav, targetDate) == findDateEntry(nav, 1, targetDate)

\* t.split(/\s+/).slice(0, n).join(' ') from position i of a trimmed text:
\* the first n tokens, one space between two of them
RECURSIVE firstTokens(_, _, _, _)
firstTokens(t, i, n, acc) ==
    IF i > Len(t) THEN acc
    ELSE IF t[i] \notin WS THEN firstTokens(t, i + 1, n, Append(acc, t[i]))
    ELSE IF n = 1 THEN acc
    ELSE firstTokens(t, skipWS(t, i), n - 1, Append(acc, " "))

\* textContent.trim().split(/\s+/).slice(0, 4).join(' ')
fullDateString(text) == firstTokens(trim(text), 1, 4, <<>>)

\* String.prototype.includes
includes(s, p) == indexOf(s, p, 1) # 0

\* faulty variant: without a heading of the date, the first heading is taken
dateHeader_first(articles, phrase) ==
    IF \E i \in 1..Len(articles) : articles[i].tag = "h3"
    THEN CHOOSE i \in 1..Len(articles) :
            /\ articles[i].tag = "h3"
            /\ \A j \in 1..(i - 1) : articles[j].tag # "h3"
    ELSE 0

\* querySelectorAll('dl#articles h3').find(h3 => h3.textContent.includes(
\* fullDateString)): the position of the first such heading, 0 if none
dateHeader(articles, phrase) ==
    LET hit(i) == articles[i].tag = "h3" /\ includes(articles[i].text, phrase)
    IN  IF \E i \in 1..Len(articles) : hit(i)
        THEN CHOOSE i \in 1..Len(articles) : hit(i) /\ \A j \in 1..(i - 1) : ~hit(j)
        ELSE 0

ABS_PREFIX == <<"/","a","b","s","/">>

\* nextNode.querySelector('a[href^="/abs/"]')?.getAttribute('href'): the href
\* of the first such link, the empty text for none
RECURSIVE abstractHref(_, _)
abstractHref(links, i) ==
    IF i > Len(links) THEN <<>>
    ELSE IF startsWith(links[i], ABS_PREFIX) THEN links[i]
    ELSE abstractHref(links, i + 1)

\* faulty variant: an identifier already collected is not collected again
RECURSIVE collectIds_distinct(_, _, _)
collectIds_distinct(articles, i, acc) ==
    IF i > Len(articles) \/ articles[i].tag = "h3" THEN acc
    ELSE LET id == splitPop(abstractHref(articles[i].links, 1), <<"/">>)
         IN  collectIds_distinct(articles, i + 1,
                IF /\ articles[i].tag = "dt"
                   /\ id # <<>>
                   /\ \A k \in 1..Len(acc) : acc[k] # id
                THEN Append(acc, id)
                ELSE acc)

\* faulty variant: the walk does not stop at a heading
RECURSIVE collectIds_through(_, _, _)
collectIds_through(articles, i, acc) ==
    IF i > Len(articles) THEN acc
    ELSE LET id == splitPop(abstractHref(articles[i].links, 1), <<"/">>)
         IN  collectIds_through(articles, i + 1,
                IF articles[i].tag = "dt" /\ id # <<>>
                THEN Append(acc, id)
                ELSE acc)

\* faulty variant: an identifier is put in front of those already collected
RECURSIVE collectIds_reversed(_, _, _)
collectIds_reversed(articles, i, acc) ==
    IF i > Len(articles) \/ articles[i].tag = "h3" THEN acc
    ELSE LET id == splitPop(abstractHref(articles[i].links, 1), <<"/">>)
         IN  collectIds_reversed(articles, i + 1,
                IF articles[i].tag = "dt" /\ id # <<>>
                THEN <<id>> \o acc
                ELSE acc)

\* the while loop over nextElementSibling from position i: each dt with an
\* abstract link whose last path segment is not empty contributes that
\* segment
RECURSIVE collectIds(_, _, _)
collectIds(articles, i, acc) ==
    IF i > Len(articles) \/ articles[i].tag = "h3" THEN acc
    ELSE LET href == abstractHref(articles[i].links, 1)
             id == splitPop(href, <<"/">>)
         IN  collectIds(articles, i + 1,
                IF articles[i].tag = "dt" /\ href # <<>> /\ id # <<>>
                THEN Append(acc, id)
                ELSE acc)

\* the extraction from the parsed document
extractArxivIdsForDate(doc, targetDate) ==
    IF ~doc.parsed THEN <<>>
    ELSE LET e == matchingDateEntry(doc.nav, targetDate)
         IN  IF e = 0 THEN <<>>
             ELSE LET h == dateHeader(doc.articles, fullDateString(doc.nav[e]))
                  IN  IF h = 0 THEN <<>>
                      ELSE collectIds(doc.articles, h + 1, <<>>)

(***************************************************************************)
(* Retrieval (src/lib/arxiv.ts).  A fetch outcome is what the network and  *)
(* the document parser deliver for one request:                            *)
(*   kind "network"  : fetch rejects (transport error, 5 s timeout)        *)
(*   kind "http"     : response.ok is false                                *)
(*   kind "nodoc"    : the parser returns no document / pdfParse rejects   *)
(*   kind "noblock"  : the page has no blockquote.abstract                 *)
(*   kind "page"     : text is the block's textContent / the pdf's text    *)
(***************************************************************************)
Fetched(kind, text) == [kind |-> kind, text |-> text]

LABEL_Abstract == <<"A","b","s","t","r","a","c","t",":">>

\* the length of the run of characters of set cs that starts at position i
RECURSIVE runLength(_, _, _)
runLength(s, i, cs) ==
    IF i <= Len(s) /\ s[i] \in cs THEN 1 + runLength(s, i + 1, cs) ELSE 0

\* text.replace(/(Abstract:|[\n\r]+|\s{2,})/g, ' '), scanning from position i
RECURSIVE replaceLabelAndBreaks(_, _)
replaceLabelAndBreaks(s, i) ==
    IF i > Len(s) THEN <<>>
    ELSE IF startsWith(SubSeq(s, i, Len(s)), LABEL_Abstract)
         THEN <<" ">> \o replaceLabelAndBreaks(s, i + Len(LABEL_Abstract))
    ELSE IF s[i] \in {"\n", "\r"}
         THEN <<" ">> \o replaceLabelAndBreaks(s, i + runLength(s, i, {"\n", "\r"}))
    ELSE IF runLength(s, i, WS) >= 2
         THEN <<" ">> \o replaceLabelAndBreaks(s, i + runLength(s, i, WS))
    ELSE <<s[i]>> \o replaceLabelAndBreaks(s, i + 1)

\* the cleaning chain of getArxivAbstract
cleanAbstract(text) == collapseWhitespace(trim(replaceLabelAndBreaks(text, 1)))

\* faulty variant: a failed retrieval yields the empty text
getArxivAbstract_emptyOnFailure(f) ==
    IF f.kind # "page" THEN Returns(JSString(<<>>))
    ELSE Returns(JSString(cleanAbstract(f.text)))

\* getArxivAbstract(arxivId), given what the fetch of the abstract page delivers
getArxivAbstract(f) ==
    IF f.kind # "page" THEN Throws
    ELSE LET result == cleanAbstract(f.text)
         IN  IF result = <<>> THEN Throws ELSE Returns(JSString(result))

\* extractPaperText(arxivId), given what the fetch of the pdf delivers
extractPaperText(f) ==
    IF f.kind # "page" THEN Throws ELSE Returns(JSString(f.text))

(***************************************************************************)
(* The Paper entity: arxivId and the two cached fields, "" when unset.     *)
(* The three properties hold values: the constructor stores its argument   *)
(* as it is, and Object.assign can put a value of any type into a field.   *)
(* extra holds the members <<key, value>> that Object.assign added to the   *)
(* object beside the three properties of the class.  proto tells what the  *)
(* prototype of the object is: "Paper" for Paper.prototype, which carries  *)
(* abstract() and text(); "object" and "null" after an assignment to       *)
(* __proto__ has replaced it.                                              *)
(* ref tells the objects apart: two Paper objects may carry one arxivId.   *)
(***************************************************************************)
NewPaper(ref, arxivId) ==
    [ref |-> ref, arxivId |-> arxivId, _abstract |-> JSString(<<>>), _text |-> JSString(<<>>),
     extra |-> <<>>, proto |-> "Paper"]

\* the null reference
NULL == [ref |-> 0, arxivId |-> JSUndefined, _abstract |-> JSUndefined, _text |-> JSUndefined,
         extra |-> <<>>, proto |-> "null"]

NAME_abstract == <<"a","b","s","t","r","a","c","t">>

NAME_text == <<"t","e","x","t">>

\* paper.abstract / paper.text is the method of the class: the prototype is
\* Paper.prototype and no own property of that name hides it.  Calling what
\* is no function is a TypeError.
callable(p, name) ==
    /\ p.proto = "Paper"
    /\ \A i \in 1..Len(p.extra) : p.extra[i][1] # name

\* faulty variant: abstract() does not test its cache
abstractUnset_always(p) == TRUE

\* if (!this._abstract) : the retrieval is invoked exactly when the field is falsy
abstractUnset(p) == ~Truthy(p._abstract)

\* if (!this._text)
textUnset(p) == ~Truthy(p._text)

KEY_arxivId == <<"a","r","x","i","v","I","d">>

KEY_abstract == <<"_","a","b","s","t","r","a","c","t">>

KEY_text == <<"_","t","e","x","t">>

KEY_proto == <<"_","_","p","r","o","t","o","_","_">>

\* JSON.stringify of one Paper: the three properties of the class, created
\* in the order of the field declarations, and behind them the properties
\* that Object.assign added
stringifyPaper(p) ==
    stringifyValue(JSObject(<< <<KEY_arxivId, p.arxivId>>,
                               <<KEY_abstract, p._abstract>>,
                               <<KEY_text, p._text>> >> \o p.extra))

RECURSIVE stringifyPapers(_, _)
stringifyPapers(papers, i) ==
    IF i > Len(papers) THEN <<>>
    ELSE (IF i > 1 THEN <<",">> ELSE <<>>) \o stringifyPaper(papers[i])
         \o stringifyPapers(papers, i + 1)

\* marshalPapers(papers), fetchData false: JSON.stringify(papers)
marshalPapers(papers) == <<"[">> \o stringifyPapers(papers, 1) \o <<"]">>

\* the own enumerable properties of a value, as Object.assign reads them: the
\* members of an object, the elements of an array and the characters of a
\* string under their indices; a number and a boolean have none
ownProperties(v) ==
    CASE v.t = "object" -> v.kv
      [] v.t = "array" -> [i \in 1..Len(v.kv) |-> <<digitsOf(i - 1), v.kv[i][2]>>]
      [] v.t = "string" -> [i \in 1..Len(v.s) |-> <<digitsOf(i - 1), JSString(<<v.s[i]>>)>>]
      [] OTHER -> <<>>

\* Object.assign(paper, plainObj), one field: the value of the property of
\* that name when plainObj has it, of whatever type; the field's own value
\* otherwise
assignedValue(plainObj, key, own) ==
    LET props == ownProperties(plainObj)
        m == lookupMember(props, key, Len(props))
    IN  IF m.t # "undefined" THEN m ELSE own

\* the key of a member is none of the three properties of the class and is
\* not __proto__
besideTheClass(member) ==
    member[1] \notin {KEY_arxivId, KEY_abstract, KEY_text, KEY_proto}

\* Object.assign(paper, plainObj) for a property __proto__ of plainObj: the
\* assignment runs the setter of Object.prototype, which makes an object
\* (an array is one) or null the prototype of the paper and ignores every
\* other value; no own property is created
assignedProto(plainObj, own) ==
    LET props == ownProperties(plainObj)
        m == lookupMember(props, KEY_proto, Len(props))
    IN  IF m.t \in {"object", "array"} THEN "object"
        ELSE IF m.t = "null" THEN "null"
        ELSE own

\* faulty variant: the properties of plainObj are not copied to the paper
restorePaper_unassigned(ref, plainObj) ==
    NewPaper(ref, GetProperty(plainObj, KEY_arxivId).v)

\* const paper = new Paper(plainObj.arxivId); Object.assign(paper, plainObj).
\* plainObj.arxivId is undefined where plainObj has no such property; every
\* other property of plainObj becomes a property of the paper.
restorePaper(ref, plainObj) ==
    LET paper == NewPaper(ref, GetProperty(plainObj, KEY_arxivId).v)
    IN  [ref |-> ref,
         arxivId |-> assignedValue(plainObj, KEY_arxivId, paper.arxivId),
         _abstract |-> assignedValue(plainObj, KEY_abstract, paper._abstract),
         _text |-> assignedValue(plainObj, KEY_text, paper._text),
         extra |-> SelectSeq(ownProperties(plainObj), besideTheClass),
         proto |-> assignedProto(plainObj, paper.proto)]

\* unmarshalPapers(jsonString): JSON.parse, then map over the array; a text
\* that is not JSON, a value that is no array (it has no map function) and
\* a null element (null.arxivId) throw
unmarshalPapers(jsonString) ==
    LET parsed == JSONparse(jsonString)
    IN  IF parsed.throws \/ parsed.v.t # "array" THEN [throws |-> TRUE, list |-> <<>>]
        ELSE IF \E i \in 1..Len(parsed.v.kv) : GetProperty(parsed.v.kv[i][2], KEY_arxivId).throws
        THEN [throws |-> TRUE, list |-> <<>>]
        ELSE [throws |-> FALSE,
              list |-> [i \in 1..Len(parsed.v.kv) |-> restorePaper(i, parsed.v.kv[i][2])]]

(***************************************************************************)
(* The inputs the environment can deliver, as small sets of concrete       *)
(* values.                                                                 *)
(***************************************************************************)
Variants == {"retry", "schema", "plain"}

\* the identifiers a listing can hold; a listing may repeat one
ArxivIds == {"2406.00001", "2406.00002"}

\* the characters of an identifier: the workflow hands identifiers on as
\* they are, the extraction cuts them out of the text of a link
characters(id) ==
    IF id = "2406.00001" THEN <<"2","4","0","6",".","0","0","0","0","1">>
    ELSE <<"2","4","0","6",".","0","0","0","0","2">>

\* the identifiers of a list, each as its characters
spelled(ids) == [i \in 1..Len(ids) |-> characters(ids[i])]

\* the results of getArxivIdsForDate: every list of at most MaxCands identifiers
CandidateLists == UNION {[1..n -> ArxivIds] : n \in 0..MaxCands}

RequestError == Response("request", <<>>)

StreamError == Response("stream", <<>>)

\* abstract pages: a page with an abstract, one whose block holds only the
\* label, a page without the block, an error status, a transport error
AbstractFetches ==
    { Fetched("page", <<"A","b","s","t","r","a","c","t",":"," "," ","F","a","s","t","\n","L","L","M","s"," ">>),
      Fetched("page", <<"\n","A","b","s","t","r","a","c","t",":"," ","\n">>),
      Fetched("noblock", <<>>),
      Fetched("http", <<>>),
      Fetched("network", <<>>) }

\* pdf retrievals: a pdf with text, a pdf without extractable text, failures
TextFetches ==
    { Fetched("page", <<"B","o","d","y">>),
      Fetched("page", <<>>),
      Fetched("http", <<>>),
      Fetched("nodoc", <<>>) }

StreamingClassifierResponses ==
    { Response("none", <<Chunk(<<"Y">>, <<>>), Chunk(<<"e","s",".">>, <<>>)>>),
      Response("none", <<Chunk(<<"n","o">>, <<>>)>>),
      Response("none", <<Chunk(<<"M","a","y","b","e">>, <<>>)>>),
      Response("none", <<>>),
      RequestError,
      StreamError }

SchemaClassifierResponses ==
    { Response("none", <<Chunk(<<"{","\"","r","e","s","u","l","t","\"",":"," ","t","r","u","e","}">>, <<>>)>>),
      Response("none", <<Chunk(<<"{","\"","r","e","s","u","l","t","\"",":","f","a","l","s","e","}">>, <<>>)>>),
      Response("none", <<Chunk(<<"{","\"","r","e","s","u","l","t","\"",":","\"","n","o","\"","}">>, <<>>)>>),
      Response("none", <<Chunk(<<"{","}">>, <<>>)>>),
      Response("none", <<Chunk(<<"y","e","s">>, <<>>)>>),
      Response("none", <<Chunk(<<"n","u","l","l">>, <<>>)>>),
      Response("none", <<>>),
      RequestError }

ClassifierResponses(v) ==
    IF v = "schema" THEN SchemaClassifierResponses ELSE StreamingClassifierResponses

StreamingComparatorResponses ==
    { Response("none", <<Chunk(<<"1">>, <<"h","m">>)>>),
      Response("none", <<Chunk(<<>>, <<"h","m">>), Chunk(<<" ","2","\n">>, <<>>)>>),
      Response("none", <<Chunk(<<"1","2">>, <<>>)>>),
      Response("none", <<Chunk(<<"P","a","p","e","r"," ","2">>, <<>>)>>),
      Response("none", <<>>),
      RequestError,
      StreamError }

PlainComparatorResponses ==
    { Response("none", <<Chunk(<<"<","t","h","i","n","k",">","2","<","/","t","h","i","n","k",">","\n","1">>, <<>>)>>),
      Response("none", <<Chunk(<<"2">>, <<>>)>>),
      Response("none", <<Chunk(<<"P","a","p","e","r"," ","1">>, <<>>)>>),
      Response("none", <<>>),
      RequestError,
      StreamError }

SchemaComparatorResponses ==
    { Response("none", <<Chunk(<<"{","\"","r","e","s","u","l","t","\"",":","1","}">>, <<>>)>>),
      Response("none", <<Chunk(<<"{","\"","r","e","s","u","l","t","\"",":"," ","2","}">>, <<>>)>>),
      Response("none", <<Chunk(<<"{","\"","r","e","s","u","l","t","\"",":","3","}">>, <<>>)>>),
      Response("none", <<Chunk(<<"{","\"","r","e","s","u","l","t","\"",":","\"","1","\"","}">>, <<>>)>>),
      Response("none", <<Chunk(<<"{","}">>, <<>>)>>),
      Response("none", <<Chunk(<<"n","u","l","l">>, <<>>)>>),
      Response("none", <<>>),
      RequestError }

ComparatorResponses(v) ==
    CASE v = "retry" -> StreamingComparatorResponses
      [] v = "schema" -> SchemaComparatorResponses
      [] OTHER -> PlainComparatorResponses

\* the answers to the clarification request of the streaming comparator
ClarificationResponses ==
    { Response("none", <<Chunk(<<"1">>, <<>>)>>),
      Response("none", <<Chunk(<<"2">>, <<>>)>>),
      Response("none", <<Chunk(<<"n","e","i","t","h","e","r">>, <<>>)>>),
      RequestError,
      StreamError }

StreamingSummarizerResponses ==
    { Response("none", <<Chunk(<<" ","A"," ","*","*","b","*","*"," ","*","*","c","*","*","\n">>, <<>>)>>),
      Response("none", <<Chunk(<<"<","t","h","i","n","k",">","x","<","/","t","h","i","n","k",">","S">>, <<>>)>>),
      Response("none", <<>>),
      RequestError,
      StreamError }

SchemaSummarizerResponses ==
    { Response("none", <<Chunk(<<"{","\"","r","e","s","u","l","t","\"",":","\"","A"," ","*","*","b","*","*"," ","*","*","c","*","*","\"","}">>, <<>>)>>),
      Response("none", <<Chunk(<<"{","\"","r","e","s","u","l","t","\"",":","7","}">>, <<>>)>>),
      Response("none", <<Chunk(<<"{","}">>, <<>>)>>),
      Response("none", <<Chunk(<<"S">>, <<>>)>>),
      Response("none", <<>>),
      RequestError }

SummarizerResponses(v) ==
    IF v = "schema" THEN SchemaSummarizerResponses ELSE StreamingSummarizerResponses

\* Deno.env.get("ENABLE_TWEET"): undefined is modelled by the empty string
EnableTweetValues == {"true", "false", ""}

\* the identifiers of the papers handed to marshalPapers, as texts
MarshalIds == { <<"2","4","0","6",".","0","0","0","0","1">>,
                <<"2","4","0","6",".","0","0","0","0","2">> }

\* the cached abstracts of the papers handed to marshalPapers: none, and one
\* with quotes and a backslash
MarshalAbstracts == { <<>>, <<"F","a","s","t"," ","\"","L","L","M","\""," ","\\","o">> }

\* their cached texts: none, and one with a line break and a quote
MarshalTexts == { <<>>, <<"B","o","d","y","\n","\"","x","\"">> }

\* the lists handed to marshalPapers; ref is the position in the list
PaperLists ==
    UNION { { [i \in 1..n |-> [ref |-> i, arxivId |-> JSString(l[i][1]),
                               _abstract |-> JSString(l[i][2]),
                               _text |-> JSString(l[i][3]),
                               extra |-> <<>>, proto |-> "Paper"]] :
              l \in [1..n -> MarshalIds \X MarshalAbstracts \X MarshalTexts] } :
            n \in 0..MaxMarshal }

\* the texts of the navigation entries
NavTexts ==
    { <<"1","4"," ","M","a","r"," ","2","0","2","4">>,
      <<"1","4"," ","M","a","r"," ","2","0","2","4"," ","(","s","h","o","w","i","n","g"," ","5","0"," ","o","f"," ","5","0"," ","e","n","t","r","i","e","s",")">>,
      <<" ","1","3"," ","M","a","r"," "," ","2","0","2","4">> }

Heading(text) == [tag |-> "h3", text |-> text, links |-> <<>>]

Entry(links) == [tag |-> "dt", text |-> <<>>, links |-> links]

Description == [tag |-> "dd", text |-> <<>>, links |-> <<>>]

\* the children of dl#articles: a date heading; entries with an abstract
\* link, with an abstract link after another link and without an abstract
\* link; a description
Nodes ==
    { Heading(<<"T","h","u",","," ","1","4"," ","M","a","r"," ","2","0","2","4">>),
      Entry(<<<<"/","a","b","s","/","2","4","0","6",".","0","0","0","0","1">>>>),
      Entry(<<<<"/","p","d","f","/","2","4","0","6",".","0","0","0","0","2">>, <<"/","a","b","s","/","2","4","0","6",".","0","0","0","0","2">>>>),
      Entry(<<<<"/","p","d","f","/","2","4","0","6",".","0","0","0","0","3">>>>),
      Description }

NoDocument == [parsed |-> FALSE, nav |-> <<>>, articles |-> <<>>]

Documents ==
    { [parsed |-> TRUE, nav |-> n, articles |-> a] :
        n \in UNION { [1..k -> NavTexts] : k \in 0..MaxNav },
        a \in UNION { [1..k -> Nodes] : k \in 0..MaxNodes } }
    \cup {NoDocument}

\* the listing documents of a run of the workflow as getArxivIdsForDate
\* finds them before its walk: no document, a document without the heading
\* of the target date, and one whose dl#articles starts with that heading
ListingHeads ==
    { NoDocument,
      [parsed |-> TRUE, nav |-> << <<"1","4"," ","M","a","r"," ","2","0","2","4">> >>,
       articles |-> <<Description>>],
      [parsed |-> TRUE, nav |-> << <<"1","4"," ","M","a","r"," ","2","0","2","4">> >>,
       articles |-> <<Heading(<<"T","h","u",","," ","1","4"," ","M","a","r"," ","2","0","2","4">>)>>] }

\* nextElementSibling of the last child read of dl#articles: null (no
\* node), or one more child as long as the document has fewer than
\* MaxCands + 1 children
NoNode == [tag |-> "", text |-> <<>>, links |-> <<>>]

Siblings(articles) ==
    {NoNode} \cup (IF Len(articles) < MaxCands + 1 THEN Nodes ELSE {})

\* no walk is under way
NoWalk == [pc |-> "idle", from |-> 0, at |-> 0, ids |-> <<>>]

\* the target dates: 14 March 2024
TargetDates == { [year |-> 2024, month |-> 2, date |-> 14] }

\* the texts of the navigation entries of the documents made to test the scan
\* of the navigation entries: dates with one and with two digits of the day,
\* with and without a count in parentheses, behind a weekday, with a month name that is
\* not in the table, and a text without a date
NavScanTexts ==
    { <<"1","4"," ","M","a","r"," ","2","0","2","4">>,
      <<"1","4"," ","M","a","r"," ","2","0","2","4"," ","(","s","h","o","w","i","n","g"," ","5","0"," ","o","f"," ","5","0"," ","e","n","t","r","i","e","s",")">>,
      <<"4"," ","M","a","r"," ","2","0","2","4">>,
      <<"T","h","u",","," ","1","4"," ","M","a","r"," ","2","0","2","4">>,
      <<"1","4"," ","m","a","r"," ","2","0","2","4">>,
      <<"r","e","c","e","n","t">>,
      <<"4"," ","M","a","r"," ","2","0","2","4"," ","(","s","h","o","w","i","n","g"," ","5"," ","o","f"," ","5"," ","e","n","t","r","i","e","s",")">> }

\* the children of dl#articles of those documents: one section; a section of
\* 4 March before one of 14 March; and the two the other way round
ArticleSamples ==
    { << Heading(<<"T","h","u",","," ","1","4"," ","M","a","r"," ","2","0","2","4">>), Entry(<<<<"/","a","b","s","/","2","4","0","6",".","0","0","0","0","1">>>>) >>,
      << Heading(<<"M","o","n",","," ","4"," ","M","a","r"," ","2","0","2","4">>), Entry(<<<<"/","a","b","s","/","2","4","0","6",".","0","0","0","0","1">>>>),
         Heading(<<"T","h","u",","," ","1","4"," ","M","a","r"," ","2","0","2","4">>), Entry(<<<<"/","a","b","s","/","2","4","0","6",".","0","0","0","0","2">>>>) >>,
      << Heading(<<"T","h","u",","," ","1","4"," ","M","a","r"," ","2","0","2","4">>), Entry(<<<<"/","a","b","s","/","2","4","0","6",".","0","0","0","0","2">>>>),
         Heading(<<"M","o","n",","," ","4"," ","M","a","r"," ","2","0","2","4">>), Entry(<<<<"/","a","b","s","/","2","4","0","6",".","0","0","0","0","1">>>>) >> }

ScanDocuments ==
    { [parsed |-> TRUE, nav |-> n, articles |-> a] :
        n \in UNION { [1..k -> NavScanTexts] : k \in 0..MaxNavScan },
        a \in ArticleSamples }

\* their target dates: 14 March 2024 and 4 March 2024
ScanTargetDates ==
    { [year |-> 2024, month |-> 2, date |-> 14], [year |-> 2024, month |-> 2, date |-> 4] }

\* the paper entries of the documents made to test the walk over the
\* siblings: an entry with an abstract link, and entries whose abstract link
\* ends in an empty path segment
WalkNodes ==
    { Entry(<<<<"/","a","b","s","/","2","4","0","6",".","0","0","0","0","1">>>>),
      Entry(<<<<"/","a","b","s","/">>>>),
      Entry(<<<<"/","a","b","s","/","2","4","0","6",".","0","0","0","0","2","/">>>>) }

\* those documents: one navigation entry and one heading of 14 March 2024,
\* and paper entries under the heading
WalkDocuments ==
    { [parsed |-> TRUE,
       nav |-> <<<<"1","4"," ","M","a","r"," ","2","0","2","4">>>>,
       articles |-> <<Heading(<<"T","h","u",","," ","1","4"," ","M","a","r"," ","2","0","2","4">>)>> \o a] :
        a \in UNION { [1..k -> WalkNodes] : k \in 0..MaxWalk } }

\* the documents and dates handed to the extraction
ListingInputs ==
    { [doc |-> d, targetDate |-> t] : d \in Documents, t \in TargetDates }
    \cup { [doc |-> d, targetDate |-> t] : d \in ScanDocuments, t \in ScanTargetDates }
    \cup { [doc |-> d, targetDate |-> t] : d \in WalkDocuments, t \in TargetDates }

(***************************************************************************)
(* State.                                                                  *)
(***************************************************************************)
VARIABLES
    \* the workflow run
    variant,          \* which iteration of the workflow runs
    pc,               \* the await the run is suspended at, or a terminal state
    arxivIds,         \* const arxivIds = await getArxivIdsForDate(today)
    processed,        \* let processed
    paper,            \* const paper = new Paper(id), of the current iteration
    leadingPaper,     \* let leadingPaper: Paper | null
    messages,         \* mostImpactful: const messages
    completion,       \* mostImpactful: let completion (first request)
    reasoningContent, \* mostImpactful: let reasoningContent (first request)
    summary,          \* the text returned by summarize
    tweets,           \* the texts handed to tweet() that were posted
    pending,          \* the oracle requests issued and not yet settled
    error,            \* the call whose rejection ended the run, "" if none
    \* history of the run
    accepted,         \* refs of the candidates the classifier accepted
    rejected,         \* refs of the candidates the classifier rejected
    losers,           \* refs of the candidates that mostImpactful did not return
    leaders,          \* refs of the values leadingPaper took, in order
    calls,            \* how often each collaborator was invoked
    lastOracle,       \* the last classifier exchange
    lastCompare,      \* the requests of the last comparator pairing
    lastPairing,      \* the last pairing that returned: its arguments and its pick
    onlyTwo,          \* every comparator answer so far was a valid 2
    lastSummarize,    \* the summarizer's answer, what summarize made of it, the flag read
    \* the record of a run
    mode,             \* "single" or "record"
    tape,             \* the inputs the recorded run has received, in order
    \* the Paper entity under test
    ent,              \* the entity
    inflight,         \* its abstract()/text() calls suspended in a retrieval
    issued,           \* the number of calls issued on it
    overlap,          \* a call was issued while another was suspended
    fetches,          \* how often each retrieval operation was invoked
    returned,         \* the completed calls, in completion order
    lastSettle,       \* the last retrieval that settled: the call and what was fetched
    \* serialization of a list of papers
    mstage,           \* "idle", "marshalled", "restored" or "taken"
    papers,           \* the list handed to marshalPapers
    wire,             \* the JSON text marshalPapers returned
    restored,         \* what unmarshalPapers made of it
    taken,            \* the position of the restored paper that ent is
    given,            \* the arguments of marshalPapers: the list as handed, fetchData
    awaiting,         \* per paper, the await its Promise.all callback is suspended at
    \* the scheduled process (paper_of_the_day.ts)
    alive,            \* the module has been loaded and the process has not exited
    day,              \* the calendar day
    cronDue,          \* 09:01 UTC of the day is still to come
    runs,             \* the workflow() invocation made at load and the one made by the cron handler
    tweeted,          \* the tweet() invocations: the run and the day whose listing it read
    \* the earliest iteration of the workflow (src/unnamed/part_001)
    early,            \* its run: the await it is suspended at and its locals
    \* extraction from a listing document
    doc,              \* the parsed listing document
    targetDate,       \* the date asked for
    extracted,         \* whether the extraction has returned, and what
    walk              \* the sibling walk of getArxivIdsForDate: where it is, what it has collected

wfVars == <<variant, pc, arxivIds, processed, paper, leadingPaper, messages,
            completion, reasoningContent, summary, tweets, pending, error>>

histVars == <<accepted, rejected, losers, leaders, calls, lastOracle, lastCompare,
             lastPairing, onlyTwo, lastSummarize>>

tapeVars == <<mode, tape>>

entVars == <<ent, inflight, issued, overlap, fetches, returned, lastSettle>>

marshalVars == <<mstage, papers, wire, restored, taken>>

docVars == <<doc, targetDate, extracted, walk>>

fetchVars == <<given, awaiting>>

cronVars == <<alive, day, cronDue, runs, tweeted>>

earlyVars == <<early>>

libVars == <<marshalVars, docVars, fetchVars, cronVars, earlyVars>>

vars == <<wfVars, histVars, tapeVars, entVars, libVars>>

NoCalls == [abstract |-> 0, getArxivAbstract |-> 0, alignedWithCentML |-> 0,
            mostImpactful |-> 0, comparatorRequests |-> 0, summarize |-> 0,
            extractPaperText |-> 0, tweet |-> 0]

NoResponse == Response("unset", <<>>)

NoOracle == [candidate |-> 0, leaderBefore |-> 0, resp |-> NoResponse]

NoCompare == [paper1 |-> 0, paper2 |-> 0, requests |-> 0,
              first |-> NoResponse, second |-> NoResponse]

NoSettle == [id |-> 0, method |-> "", f |-> [kind |-> "unset", text |-> <<>>]]

NoPairing == [paper1 |-> 0, paper2 |-> 0, pick |-> 0]

NoSummarize == [settled |-> FALSE, resp |-> NoResponse, throws |-> FALSE,
                v |-> JSUndefined, env |-> ""]

Message(role, kind, parts) == [role |-> role, kind |-> kind, parts |-> parts]

\* const messages = [system instruction, user prompt with both abstracts]
initialMessages(abstract1, abstract2) ==
    << Message("system", "instruction", <<>>),
       Message("user", "prompt", <<abstract1, abstract2>>) >>

\* faulty variant: the clarification request starts a new conversation
clarificationMessages_fresh(msgs, reasoning, text) ==
    << Message("assistant", "prior", <<reasoning \o text>>),
       Message("user", "answer with 1 or 2 only", <<>>) >>

\* the two messages pushed before the clarification request
clarificationMessages(msgs, reasoning, text) ==
    msgs \o << Message("assistant", "prior", <<reasoning \o text>>),
               Message("user", "answer with 1 or 2 only", <<>>) >>

(***************************************************************************)
(* The inputs of a recorded run: what each await of the run resolved to,   *)
(* in the order of the awaits.  A retrieval has returned or thrown; the    *)
(* classifier has answered yes or no or has thrown; a request to the       *)
(* comparator has named paper 1 or 2, has to be asked again, or has        *)
(* thrown; summarize has returned or thrown and the tweet is enabled or    *)
(* not; tweet has posted or thrown.                                        *)
(***************************************************************************)
verdict(r) == IF r.throws THEN "throws" ELSE IF Truthy(r.v) THEN "yes" ELSE "no"

Record(kind, x) ==
    /\ tape' = IF mode = "record" THEN Append(tape, [k |-> kind, x |-> x]) ELSE tape
    /\ UNCHANGED mode

(***************************************************************************)
(* The workflow.  One action per await of workflow() and of the functions  *)
(* it calls; an action runs the code from the completion of one await to   *)
(* the next suspension or to the end of the run.                           *)
(***************************************************************************)
InitWith(m) ==
    /\ variant \in Variants
    /\ pc = "start"
    /\ arxivIds = <<>>
    /\ processed = 0
    /\ paper = NULL
    /\ leadingPaper = NULL
    /\ messages = <<>>
    /\ completion = <<>>
    /\ reasoningContent = <<>>
    /\ summary = JSUndefined
    /\ tweets = <<>>
    /\ pending = {}
    /\ error = ""
    /\ accepted = {}
    /\ rejected = {}
    /\ losers = {}
    /\ leaders = <<>>
    /\ calls = NoCalls
    /\ lastOracle = NoOracle
    /\ lastCompare = NoCompare
    /\ lastPairing = NoPairing
    /\ onlyTwo = TRUE
    /\ lastSummarize = NoSummarize
    /\ mode = m
    /\ tape = <<>>
    /\ ent = NewPaper(1, JSString("2406.00001"))
    /\ inflight = {}
    /\ issued = 0
    /\ overlap = FALSE
    /\ fetches = [getArxivAbstract |-> 0, extractPaperText |-> 0]
    /\ returned = <<>>
    /\ lastSettle = NoSettle
    /\ mstage = "idle"
    /\ papers = <<>>
    /\ wire = <<>>
    /\ restored = [throws |-> FALSE, list |-> <<>>]
    /\ taken = 0
    /\ given = [papers |-> <<>>, fetchData |-> FALSE]
    /\ awaiting = <<>>
    /\ alive = FALSE
    /\ day = 0
    /\ cronDue = FALSE
    /\ runs = [r \in {"load", "cron"} |-> [pc |-> "idle", today |-> 0, total |-> 0, processed |-> 0, leader |-> FALSE]]
    /\ tweeted = <<>>
    /\ early = [pc |-> "start", total |-> 0, taken |-> 0, leadingPaper |-> 0, count |-> 0,
                accepted |-> 0, summarize |-> 0, error |-> ""]
    /\ doc = NoDocument
    /\ targetDate = [year |-> 0, month |-> 0, date |-> 0]
    /\ extracted = [done |-> FALSE, found |-> <<>>]
    /\ walk = NoWalk

Init == InitWith("single")

\* a request to the oracle, made for the candidate (the leader) of position ref
OracleCall(kind, ref) == [kind |-> kind, ref |-> ref]

\* client.chat.completions.create(...) is called
issue(calls_, call) == calls_ \cup {call}

\* faulty variant: the code goes on without waiting for the answer
settle_abandoned(calls_, call) == calls_

\* await of the response, and of the whole stream (for await): the request
\* has completed or failed
settle(calls_, call) == calls_ \ {call}

\* faulty variant: the rejection is caught in the loop and the run goes on
\* with the next candidate
Abort_caught(at) ==
    /\ pc' = "loop"
    /\ error' = at

\* a rejected await that nothing catches: the promise of workflow() rejects
Abort(at) ==
    /\ pc' = "aborted"
    /\ error' = at

\* the locals of workflow() as declared at its start
startLeadingPaper(previous) == NULL

\* workflow(): getArxivIdsForDate resolves or rejects; the locals are initialised
WorkflowStart ==
    /\ pc = "start"
    /\ \E r \in {[throws |-> TRUE, ids |-> <<>>]}
                  \cup {[throws |-> FALSE, ids |-> l] : l \in CandidateLists} :
        /\ Record("listing", r)
        /\ arxivIds' = r.ids
        /\ leadingPaper' = startLeadingPaper(leadingPaper)
        /\ processed' = 0
        /\ paper' = NULL
        /\ messages' = <<>>
        /\ completion' = <<>>
        /\ reasoningContent' = <<>>
        /\ summary' = JSUndefined
        /\ tweets' = <<>>
        /\ pending' = {}
        /\ accepted' = {}
        /\ rejected' = {}
        /\ losers' = {}
        /\ leaders' = <<>>
        /\ calls' = NoCalls
        /\ lastOracle' = NoOracle
        /\ lastCompare' = NoCompare
        /\ lastPairing' = NoPairing
        /\ onlyTwo' = TRUE
        /\ lastSummarize' = NoSummarize
        /\ IF r.throws THEN Abort("getArxivIdsForDate")
           ELSE pc' = "loop" /\ error' = ""
    /\ UNCHANGED <<variant, entVars, libVars>>

Bump(field) == [calls EXCEPT ![field] = @ + 1]

Bump2(f1, f2) == [calls EXCEPT ![f1] = @ + 1, ![f2] = @ + 1]

\* faulty variant: the list is walked from its end
nextCandidate_fromEnd(ids, done) == Len(ids) - done

\* for (const id of arxivIds): the position of the element the iterator
\* yields after done elements
nextCandidate(ids, done) == done + 1

\* for (const id of arxivIds): the iterator yields the next id, processed++,
\* and the run is suspended on the timer of the pacing delay; paper keeps
\* the Paper constructed last
LoopNext ==
    /\ pc = "loop"
    /\ processed < Len(arxivIds)
    /\ processed' = processed + 1
    /\ pc' = "delay"
    /\ UNCHANGED <<variant, arxivIds, paper, leadingPaper, messages, completion,
                   reasoningContent, summary, tweets, pending, error>>
    /\ UNCHANGED <<accepted, rejected, losers, leaders, calls, lastOracle, lastCompare,
                   lastPairing, onlyTwo, lastSummarize>>
    /\ UNCHANGED <<tapeVars, entVars, libVars>>

\* the timer of await new Promise(r => setTimeout(r, 1000)) fires:
\* new Paper(id), and paper.abstract() up to its await of getArxivAbstract;
\* id is the element yielded when processed was one less
DelayElapsed ==
    /\ pc = "delay"
    /\ paper' = NewPaper(nextCandidate(arxivIds, processed - 1),
                         JSString(arxivIds[nextCandidate(arxivIds, processed - 1)]))
    /\ calls' = Bump2("abstract", "getArxivAbstract")
    /\ pc' = "abstract"
    /\ UNCHANGED <<variant, arxivIds, processed, leadingPaper, messages, completion,
                   reasoningContent, summary, tweets, pending, error>>
    /\ UNCHANGED <<accepted, rejected, losers, leaders, lastOracle, lastCompare,
                   lastPairing, onlyTwo, lastSummarize>>
    /\ UNCHANGED <<tapeVars, entVars, libVars>>

\* getArxivAbstract settles: paper._abstract is stored and alignedWithCentML
\* issues its request
AbstractReturn ==
    /\ pc = "abstract"
    /\ \E f \in AbstractFetches :
        LET r == getArxivAbstract(f)
        IN  /\ Record("abstract", r.throws)
            /\ IF r.throws
               THEN /\ Abort("abstract")
                    /\ UNCHANGED <<paper, calls, pending>>
               ELSE /\ paper' = [paper EXCEPT !._abstract = r.v]
                    /\ calls' = Bump("alignedWithCentML")
                    /\ pending' = issue(pending, OracleCall("classifier", paper.ref))
                    /\ pc' = "classify"
                    /\ UNCHANGED error
    /\ UNCHANGED <<variant, arxivIds, processed, leadingPaper, messages, completion,
                   reasoningContent, summary, tweets>>
    /\ UNCHANGED <<accepted, rejected, losers, leaders, lastOracle, lastCompare,
                   lastPairing, onlyTwo, lastSummarize>>
    /\ UNCHANGED <<entVars, libVars>>

\* faulty variant: the comparator's arguments are passed in the other order
assignLeader_swapped(leader, candidate, pick) == IF pick = 1 THEN candidate ELSE leader

\* faulty variant: the comparator's result is dropped
assignLeader_keep(leader, candidate, pick) == leader

\* leadingPaper = leadingPaper ? await mostImpactful(leadingPaper, paper) : paper
\* the value assigned once mostImpactful has returned paper1 (pick 1) or paper2
assignLeader(leader, candidate, pick) == IF pick = 1 THEN leader ELSE candidate

\* the history after leadingPaper was assigned p
Led(p) == IF leaders # <<>> /\ leaders[Len(leaders)] = p.ref THEN leaders ELSE Append(leaders, p.ref)

\* faulty variant: a relevant paper is handed to mostImpactful even when
\* there is no leader
classifyBranch_alwaysCompare(aligned, leader) ==
    IF ~Truthy(aligned) THEN "continue" ELSE "mostImpactful"

\* faulty variant: the continue of a paper that is not relevant is left out
classifyBranch_fallthrough(aligned, leader) ==
    IF leader # NULL THEN "mostImpactful" ELSE "paper"

\* if (!await alignedWithCentML(...)) continue; then
\* leadingPaper = leadingPaper ? await mostImpactful(leadingPaper, paper) : paper
\* which of the three ways the iteration takes
classifyBranch(aligned, leader) ==
    IF ~Truthy(aligned) THEN "continue"
    ELSE IF leader # NULL THEN "mostImpactful"
    ELSE "paper"

\* the classifier's request settles.  Not relevant: continue.  Relevant and no
\* leader: the paper leads.  Relevant and a leader: mostImpactful reads both
\* abstracts (cached) and issues its request
ClassifyReturn ==
    /\ pc = "classify"
    /\ \E resp \in ClassifierResponses(variant) :
        LET r == alignedWithCentML(variant, resp)
            branch == classifyBranch(r.v, leadingPaper)
            settled == settle(pending, OracleCall("classifier", paper.ref))
        IN  /\ Record("classify", verdict(r))
            /\ pending' = IF ~r.throws /\ branch = "mostImpactful"
                          THEN issue(settled, OracleCall("comparator", paper.ref))
                          ELSE settled
            /\ lastOracle' = [candidate |-> paper.ref, leaderBefore |-> leadingPaper.ref,
                              resp |-> resp]
            /\ accepted' = IF ~r.throws /\ Truthy(r.v) THEN accepted \cup {paper.ref} ELSE accepted
            /\ rejected' = IF ~r.throws /\ ~Truthy(r.v) THEN rejected \cup {paper.ref} ELSE rejected
            /\ IF r.throws
               THEN /\ Abort("alignedWithCentML")
                    /\ UNCHANGED <<leadingPaper, messages, leaders, calls>>
               ELSE IF branch = "continue"
               THEN /\ pc' = "loop"
                    /\ UNCHANGED <<leadingPaper, messages, leaders, calls, error>>
               ELSE IF branch = "mostImpactful"
               THEN /\ pc' = "compare"
                    /\ messages' = initialMessages(leadingPaper._abstract.s, paper._abstract.s)
                    /\ calls' = [calls EXCEPT !.mostImpactful = @ + 1,
                                              !.comparatorRequests = @ + 1,
                                              !.abstract = @ + 2]
                    /\ UNCHANGED <<leadingPaper, leaders, error>>
               ELSE /\ pc' = "loop"
                    /\ leadingPaper' = paper
                    /\ leaders' = Led(paper)
                    /\ UNCHANGED <<messages, calls, error>>
    /\ UNCHANGED <<variant, arxivIds, processed, paper, completion, reasoningContent,
                   summary, tweets>>
    /\ UNCHANGED <<losers, lastCompare, lastPairing, onlyTwo, lastSummarize>>
    /\ UNCHANGED <<entVars, libVars>>

\* a valid answer of 2, as each comparator is asked to give it
AnswerIsTwo(v, resp) ==
    /\ resp.err = "none"
    /\ IF v = "schema"
       THEN LET j == JSONparse(messageContent(resp))
            IN  /\ ~j.throws
                /\ ~GetProperty(j.v, TXT_result).throws
                /\ GetProperty(j.v, TXT_result).v = JSNumber(2)
       ELSE IF v = "plain"
       THEN cleanAnswer(splitPop(accumulateContent(resp.chunks), THINK_END)) = TXT_2
       ELSE cleanAnswer(accumulateContent(resp.chunks)) = TXT_2

\* the history after mostImpactful(leadingPaper, paper) returned its pick
Paired(pick) ==
    /\ leadingPaper' = assignLeader(leadingPaper, paper, pick)
    /\ lastPairing' = [paper1 |-> leadingPaper.ref, paper2 |-> paper.ref, pick |-> pick]
    /\ losers' = losers \cup {IF pick = 1 THEN paper.ref ELSE leadingPaper.ref}
    /\ leaders' = Led(assignLeader(leadingPaper, paper, pick))
    /\ pc' = "loop"
    /\ UNCHANGED error

\* the comparator's first request settles
CompareReturn ==
    /\ pc = "compare"
    /\ \E resp \in ComparatorResponses(variant) :
        LET r == mostImpactfulFirst(variant, resp)
            settled == settle(pending, OracleCall("comparator", paper.ref))
        IN  /\ Record("compare", r)
            /\ pending' = IF r.status = "retry"
                          THEN issue(settled, OracleCall("clarification", paper.ref))
                          ELSE settled
            /\ lastCompare' = [paper1 |-> leadingPaper.ref, paper2 |-> paper.ref,
                               requests |-> 1, first |-> resp, second |-> NoResponse]
            /\ onlyTwo' = (onlyTwo /\ AnswerIsTwo(variant, resp))
            /\ CASE r.status = "throws" ->
                    /\ Abort("mostImpactful")
                    /\ UNCHANGED <<leadingPaper, losers, leaders, lastPairing, messages,
                                   completion, reasoningContent, calls>>
                 [] r.status = "retry" ->
                    /\ pc' = "clarify"
                    /\ completion' = accumulateContent(resp.chunks)
                    /\ reasoningContent' = accumulateReasoning(resp.chunks)
                    /\ messages' = clarificationMessages(messages,
                                       accumulateReasoning(resp.chunks),
                                       accumulateContent(resp.chunks))
                    /\ calls' = Bump("comparatorRequests")
                    /\ UNCHANGED <<leadingPaper, losers, leaders, lastPairing, error>>
                 [] OTHER ->
                    /\ Paired(r.pick)
                    /\ UNCHANGED <<messages, completion, reasoningContent, calls>>
    /\ UNCHANGED <<variant, arxivIds, processed, paper, summary, tweets>>
    /\ UNCHANGED <<accepted, rejected, lastOracle, lastSummarize>>
    /\ UNCHANGED <<entVars, libVars>>

\* the clarification request of the streaming comparator settles
ClarifyReturn ==
    /\ pc = "clarify"
    /\ \E resp \in ClarificationResponses :
        LET r == mostImpactfulSecondRetry(completion, resp)
        IN  /\ Record("clarify", r)
            /\ pending' = settle(pending, OracleCall("clarification", paper.ref))
            /\ lastCompare' = [lastCompare EXCEPT !.requests = 2, !.second = resp]
            /\ onlyTwo' = (onlyTwo /\ AnswerIsTwo(variant, resp))
            /\ IF r.status = "throws"
               THEN /\ Abort("mostImpactful")
                    /\ UNCHANGED <<leadingPaper, losers, leaders, lastPairing>>
               ELSE Paired(r.pick)
    /\ UNCHANGED <<variant, arxivIds, processed, paper, messages, completion,
                   reasoningContent, summary, tweets>>
    /\ UNCHANGED <<accepted, rejected, calls, lastOracle, lastSummarize>>
    /\ UNCHANGED <<entVars, libVars>>

\* the loop is over: without a leader the run ends; with one, summarize is
\* called and awaits paper.text(), whose field is unset
LoopExit ==
    /\ pc = "loop"
    /\ processed = Len(arxivIds)
    /\ IF leadingPaper = NULL
       THEN pc' = "done" /\ UNCHANGED <<calls, pending>>
       ELSE /\ pc' = IF textUnset(leadingPaper) THEN "text" ELSE "summarize"
            /\ pending' = IF textUnset(leadingPaper) THEN pending
                          ELSE issue(pending, OracleCall("summarizer", leadingPaper.ref))
            /\ calls' = IF textUnset(leadingPaper)
                        THEN Bump2("summarize", "extractPaperText")
                        ELSE Bump("summarize")
    /\ UNCHANGED <<variant, arxivIds, processed, paper, leadingPaper, messages, completion,
                   reasoningContent, summary, tweets, error>>
    /\ UNCHANGED <<accepted, rejected, losers, leaders, lastOracle, lastCompare,
                   lastPairing, onlyTwo, lastSummarize>>
    /\ UNCHANGED <<tapeVars, entVars, libVars>>

\* extractPaperText settles: the text is stored and the summarizer's request is issued
TextReturn ==
    /\ pc = "text"
    /\ \E f \in TextFetches :
        LET r == extractPaperText(f)
        IN  /\ Record("text", r.throws)
            /\ IF r.throws
               THEN Abort("text") /\ UNCHANGED <<leadingPaper, pending>>
               ELSE /\ leadingPaper' = [leadingPaper EXCEPT !._text = r.v]
                    /\ pending' = issue(pending, OracleCall("summarizer", leadingPaper.ref))
                    /\ pc' = "summarize"
                    /\ UNCHANGED error
    /\ UNCHANGED <<variant, arxivIds, processed, paper, messages, completion,
                   reasoningContent, summary, tweets>>
    /\ UNCHANGED histVars
    /\ UNCHANGED <<entVars, libVars>>

\* faulty variant: any value of the flag that is not empty enables the tweet
tweetEnabled_truthy(env) == env # ""

\* Deno.env.get("ENABLE_TWEET") === "true"
tweetEnabled(env) == env = "true"

\* the summarizer's request settles; the workflow reads ENABLE_TWEET and calls tweet
SummarizeReturn ==
    /\ pc = "summarize"
    /\ \E resp \in SummarizerResponses(variant) :
       \E env \in EnableTweetValues :
        LET r == summarize(variant, resp)
            t == IF r.throws THEN Throws ELSE postSummary(variant, r.v)
        IN  /\ Record("summarize", [throws |-> t.throws, tweet |-> tweetEnabled(env)])
            /\ pending' = settle(pending, OracleCall("summarizer", leadingPaper.ref))
            /\ lastSummarize' = [settled |-> TRUE, resp |-> resp, throws |-> r.throws,
                                 v |-> r.v, env |-> env]
            /\ IF t.throws
               THEN Abort("summarize") /\ UNCHANGED <<summary, calls>>
               ELSE /\ summary' = t.v
                    /\ UNCHANGED error
                    /\ IF tweetEnabled(env)
                       THEN pc' = "tweet" /\ calls' = Bump("tweet")
                       ELSE pc' = "done" /\ UNCHANGED calls
    /\ UNCHANGED <<variant, arxivIds, processed, paper, leadingPaper, messages, completion,
                   reasoningContent, tweets>>
    /\ UNCHANGED <<accepted, rejected, losers, leaders, lastOracle, lastCompare,
                   lastPairing, onlyTwo>>
    /\ UNCHANGED <<entVars, libVars>>

\* tweet(summary) settles
TweetReturn ==
    /\ pc = "tweet"
    /\ \E posted \in BOOLEAN :
        /\ Record("tweet", posted)
        /\ IF posted
           THEN pc' = "done" /\ tweets' = Append(tweets, summary) /\ UNCHANGED error
           ELSE Abort("tweet") /\ UNCHANGED tweets
    /\ UNCHANGED <<variant, arxivIds, processed, paper, leadingPaper, messages, completion,
                   reasoningContent, summary, pending>>
    /\ UNCHANGED histVars
    /\ UNCHANGED <<entVars, libVars>>

Next ==
    \/ WorkflowStart
    \/ LoopNext
    \/ DelayElapsed
    \/ AbstractReturn
    \/ ClassifyReturn
    \/ CompareReturn
    \/ ClarifyReturn
    \/ LoopExit
    \/ TextReturn
    \/ SummarizeReturn
    \/ TweetReturn

Spec == Init /\ [][Next]_vars

(***************************************************************************)
(* The run with its extraction: getArxivIdsForDate fetches the listing,    *)
(* finds the heading of the date and walks the siblings behind it, one     *)
(* iteration of its while loop per step; workflow() goes on with the       *)
(* identifiers the walk has collected.                                     *)
(***************************************************************************)
\* let nextNode = dateHeader.nextElementSibling: the position in the
\* children of dl#articles the walk starts at, 0 where the function returns
\* before the walk
firstSibling(d, t) ==
    IF ~d.parsed THEN 0
    ELSE LET e == matchingDateEntry(d.nav, t)
         IN  IF e = 0 THEN 0
             ELSE LET h == dateHeader(d.articles, fullDateString(d.nav[e]))
                  IN  IF h = 0 THEN 0 ELSE h + 1

\* workflow() calls getArxivIdsForDate(today): the fetch rejects, or the
\* document is parsed and searched up to the start of the walk
WalkStart ==
    /\ pc = "start"
    /\ walk.pc = "idle"
    /\ \E throws \in BOOLEAN : \E d \in ListingHeads : \E t \in TargetDates :
        /\ targetDate' = t
        /\ IF throws
           THEN walk' = [NoWalk EXCEPT !.pc = "failed"] /\ UNCHANGED doc
           ELSE IF firstSibling(d, t) = 0
           THEN walk' = [NoWalk EXCEPT !.pc = "done"] /\ UNCHANGED doc
           ELSE /\ walk' = [pc |-> "walking", from |-> firstSibling(d, t),
                            at |-> firstSibling(d, t), ids |-> <<>>]
                /\ doc' = d
    /\ UNCHANGED extracted
    /\ UNCHANGED <<wfVars, histVars, tapeVars, entVars, marshalVars, fetchVars, cronVars,
                   earlyVars>>

\* faulty variant: the walk does not move on
nextElementSibling_same(at) == at

\* nextNode = nextNode.nextElementSibling: the position of the next child
\* of dl#articles
nextElementSibling(at) == at + 1

\* while (nextNode && !nextNode.matches('h3')): one test of the condition
\* and, where it holds, one iteration, which ends with
\* nextNode = nextNode.nextElementSibling; where it fails the function
\* returns arxivIds.  nextNode is the child of dl#articles at position
\* walk.at; a child that was not read before is delivered by the document.
WalkStep ==
    /\ walk.pc = "walking"
    /\ \E nextNode \in (IF walk.at <= Len(doc.articles) THEN {doc.articles[walk.at]}
                         ELSE Siblings(doc.articles)) :
        IF nextNode = NoNode \/ nextNode.tag = "h3"
        THEN /\ walk' = [NoWalk EXCEPT !.pc = "done", !.ids = walk.ids]
             /\ doc' = NoDocument
        ELSE LET href == abstractHref(nextNode.links, 1)
                 id == splitPop(href, <<"/">>)
             IN  /\ walk' = [walk EXCEPT
                                !.ids = IF nextNode.tag = "dt" /\ href # <<>> /\ id # <<>>
                                        THEN Append(@, id) ELSE @,
                                !.at = nextElementSibling(@)]
                 /\ doc' = IF walk.at <= Len(doc.articles) THEN doc
                           ELSE [doc EXCEPT !.articles = Append(@, nextNode)]
    /\ UNCHANGED <<targetDate, extracted>>
    /\ UNCHANGED <<wfVars, histVars, tapeVars, entVars, marshalVars, fetchVars, cronVars,
                   earlyVars>>

\* const arxivIds = await getArxivIdsForDate(today): the call has returned
\* what the walk collected, or it has rejected
ListingReturn ==
    /\ walk.pc \in {"done", "failed"}
    /\ WorkflowStart
    /\ IF walk.pc = "failed" THEN pc' = "aborted"
       ELSE pc' = "loop" /\ spelled(arxivIds') = walk.ids

NextLive ==
    \/ WalkStart
    \/ WalkStep
    \/ ListingReturn
    \/ LoopNext
    \/ DelayElapsed
    \/ AbstractReturn
    \/ ClassifyReturn
    \/ CompareReturn
    \/ ClarifyReturn
    \/ LoopExit
    \/ TextReturn
    \/ SummarizeReturn
    \/ TweetReturn

\* a run of the streaming workflow of src/paper-of-the-day.ts, whose
\* comparator asks a second time after an answer that is neither 1 nor 2
InitLive == Init /\ variant = "retry"

\* every retrieval and every request to the oracle eventually returns or
\* fails, and every timer fires: the continuation of the run is taken
SpecLive == InitLive /\ [][NextLive]_vars /\ WF_vars(NextLive)

(***************************************************************************)
(* A recorded run: the run of workflow() with the inputs it receives       *)
(* written to the tape, for the two workflows of src/paper-of-the-day.ts.  *)
(***************************************************************************)
InitRecord == InitWith("record") /\ variant \in {"retry", "schema"}

SpecRecord == InitRecord /\ [][Next]_vars

(***************************************************************************)
(* The Paper entity under test: a caller issues abstract() and text()      *)
(* calls on one entity, each of which runs to its await of the retrieval   *)
(* (field unset) or returns the cached field at once.                      *)
(***************************************************************************)
Call(id, method) == [id |-> id, method |-> method]

Completed(id, method, throws, value) ==
    [id |-> id, method |-> method, throws |-> throws, value |-> value]

\* faulty variant: a rejected retrieval is cached as a text of the field
assigned_cachesFailure(p, field, r) ==
    [p EXCEPT ![field] = IF r.throws THEN JSString(<<"E","r","r","o","r">>) ELSE r.v]

\* this._abstract = await getArxivAbstract(...), this._text = await
\* extractPaperText(...): a rejected await throws before the assignment
assigned(p, field, r) ==
    IF r.throws THEN p ELSE [p EXCEPT ![field] = r.v]

\* paper.abstract() is called; where paper.abstract is not the method of the
\* class the call throws
CallAbstract ==
    /\ issued < MaxCalls
    /\ issued' = issued + 1
    /\ overlap' = (overlap \/ inflight # {})
    /\ IF ~callable(ent, NAME_abstract)
       THEN /\ returned' = Append(returned, Completed(issued + 1, "abstract", TRUE, JSUndefined))
            /\ UNCHANGED <<inflight, fetches>>
       ELSE IF abstractUnset(ent)
       THEN /\ inflight' = inflight \cup {Call(issued + 1, "abstract")}
            /\ fetches' = [fetches EXCEPT !.getArxivAbstract = @ + 1]
            /\ UNCHANGED returned
       ELSE /\ returned' = Append(returned, Completed(issued + 1, "abstract", FALSE, ent._abstract))
            /\ UNCHANGED <<inflight, fetches>>
    /\ UNCHANGED <<ent, lastSettle>>
    /\ UNCHANGED <<wfVars, histVars, tapeVars, libVars>>

\* this._abstract = await getArxivAbstract(this.arxivId); return this._abstract
AbstractSettle ==
    /\ \E c \in inflight :
        /\ c.method = "abstract"
        /\ \E f \in AbstractFetches :
            LET r == getArxivAbstract(f)
            IN  /\ inflight' = inflight \ {c}
                /\ lastSettle' = [id |-> c.id, method |-> c.method, f |-> f]
                /\ ent' = assigned(ent, "_abstract", r)
                /\ returned' = IF r.throws
                               THEN Append(returned, Completed(c.id, "abstract", TRUE, JSUndefined))
                               ELSE Append(returned, Completed(c.id, "abstract", FALSE, r.v))
    /\ UNCHANGED <<issued, overlap, fetches>>
    /\ UNCHANGED <<wfVars, histVars, tapeVars, libVars>>

\* paper.text() is called; where paper.text is not the method of the class
\* the call throws
CallText ==
    /\ issued < MaxCalls
    /\ issued' = issued + 1
    /\ overlap' = (overlap \/ inflight # {})
    /\ IF ~callable(ent, NAME_text)
       THEN /\ returned' = Append(returned, Completed(issued + 1, "text", TRUE, JSUndefined))
            /\ UNCHANGED <<inflight, fetches>>
       ELSE IF textUnset(ent)
       THEN /\ inflight' = inflight \cup {Call(issued + 1, "text")}
            /\ fetches' = [fetches EXCEPT !.extractPaperText = @ + 1]
            /\ UNCHANGED returned
       ELSE /\ returned' = Append(returned, Completed(issued + 1, "text", FALSE, ent._text))
            /\ UNCHANGED <<inflight, fetches>>
    /\ UNCHANGED <<ent, lastSettle>>
    /\ UNCHANGED <<wfVars, histVars, tapeVars, libVars>>

\* this._text = await extractPaperText(this.arxivId); return this._text
TextSettle ==
    /\ \E c \in inflight :
        /\ c.method = "text"
        /\ \E f \in TextFetches :
            LET r == extractPaperText(f)
            IN  /\ inflight' = inflight \ {c}
                /\ lastSettle' = [id |-> c.id, method |-> c.method, f |-> f]
                /\ ent' = assigned(ent, "_text", r)
                /\ returned' = IF r.throws
                               THEN Append(returned, Completed(c.id, "text", TRUE, JSUndefined))
                               ELSE Append(returned, Completed(c.id, "text", FALSE, r.v))
    /\ UNCHANGED <<issued, overlap, fetches>>
    /\ UNCHANGED <<wfVars, histVars, tapeVars, libVars>>

NextPaper ==
    \/ CallAbstract
    \/ AbstractSettle
    \/ CallText
    \/ TextSettle

SpecPaper == Init /\ [][NextPaper]_vars

(***************************************************************************)
(* Serialization: a list of papers is marshalled and unmarshalled, and a   *)
(* caller then reads abstract() and text() of one restored paper.          *)
(***************************************************************************)
\* Paper.marshalPapers(papers), fetchData false, returns
Marshal ==
    /\ mstage = "idle"
    /\ \E l \in PaperLists :
        /\ papers' = l
        /\ given' = [papers |-> l, fetchData |-> FALSE]
        /\ wire' = marshalPapers(l)
    /\ mstage' = "marshalled"
    /\ UNCHANGED <<restored, taken, awaiting>>
    /\ UNCHANGED <<wfVars, histVars, tapeVars, entVars, docVars, cronVars, earlyVars>>

\* Paper.unmarshalPapers(wire) returns or throws
Unmarshal ==
    /\ mstage = "marshalled"
    /\ restored' = unmarshalPapers(wire)
    /\ mstage' = "restored"
    /\ UNCHANGED <<papers, wire, taken, fetchVars>>
    /\ UNCHANGED <<wfVars, histVars, tapeVars, entVars, docVars, cronVars, earlyVars>>

\* the caller picks one of the restored papers to call
TakeRestored ==
    /\ mstage = "restored"
    /\ ~restored.throws
    /\ \E i \in 1..Len(restored.list) :
        /\ taken' = i
        /\ ent' = restored.list[i]
    /\ mstage' = "taken"
    /\ UNCHANGED <<papers, wire, restored, fetchVars>>
    /\ UNCHANGED <<inflight, issued, overlap, fetches, returned, lastSettle>>
    /\ UNCHANGED <<wfVars, histVars, tapeVars, docVars, cronVars, earlyVars>>

NextMarshal ==
    \/ Marshal
    \/ Unmarshal
    \/ TakeRestored
    \/ (mstage = "taken" /\ CallAbstract)
    \/ (mstage = "taken" /\ CallText)

SpecMarshal == Init /\ [][NextMarshal]_vars

(***************************************************************************)
(* Serialization with fetchData true: Promise.all starts one callback per  *)
(* paper; each awaits paper.abstract() and then paper.text(), and is       *)
(* suspended in a retrieval where the field is unset.  The first callback  *)
(* that throws rejects marshalPapers; the other callbacks run on.          *)
(***************************************************************************)
\* faulty variant: the callback returns after paper.abstract() and never
\* awaits paper.text()
afterAbstract_returns(p) == "done"

\* await paper.text() behind a resolved abstract: the await the callback is
\* suspended at
afterAbstract(p) ==
    IF ~callable(p, NAME_text) THEN "failed"
    ELSE IF textUnset(p) THEN "text" ELSE "done"

\* the first await of the callback of one paper
firstAwait(p) ==
    IF ~callable(p, NAME_abstract) THEN "failed"
    ELSE IF abstractUnset(p) THEN "abstract" ELSE afterAbstract(p)

\* a callback has thrown: Promise.all, and with it marshalPapers, rejects
anyFailed(aw) == \E i \in 1..Len(aw) : aw[i] = "failed"

\* how many of the callbacks are suspended at an await
suspendedAt(aw, what) == Cardinality({i \in 1..Len(aw) : aw[i] = what})

\* Promise.all has resolved: every callback has returned
allSettled(aw) == \A i \in 1..Len(aw) : aw[i] = "done"

\* the end of a step of a callback: return JSON.stringify(papers) once
\* Promise.all has resolved, unless marshalPapers has been rejected
ProduceWhenResolved ==
    IF mstage' # "rejected" /\ allSettled(awaiting')
    THEN wire' = marshalPapers(papers')
    ELSE wire' = wire

\* Paper.marshalPapers(papers, true) is called: the callbacks run to their
\* first await
MarshalFetch ==
    /\ mstage = "idle"
    /\ \E l \in PaperLists :
        /\ papers' = l
        /\ given' = [papers |-> l, fetchData |-> TRUE]
        /\ awaiting' = [i \in 1..Len(l) |-> firstAwait(l[i])]
    /\ fetches' = [getArxivAbstract |-> suspendedAt(awaiting', "abstract"),
                   extractPaperText |-> suspendedAt(awaiting', "text")]
    /\ mstage' = IF anyFailed(awaiting') THEN "rejected"
                 ELSE IF allSettled(awaiting') THEN "marshalled" ELSE "fetching"
    /\ ProduceWhenResolved
    /\ UNCHANGED <<restored, taken>>
    /\ UNCHANGED <<ent, inflight, issued, overlap, returned, lastSettle>>
    /\ UNCHANGED <<wfVars, histVars, tapeVars, docVars, cronVars, earlyVars>>

\* the retrieval of one paper's abstract settles: the field is assigned and
\* the callback goes on to paper.text(), or the callback throws
FetchAbstractSettle ==
    /\ mstage \in {"fetching", "rejected"}
    /\ \E i \in 1..Len(papers) :
        /\ awaiting[i] = "abstract"
        /\ \E f \in AbstractFetches :
            LET r == getArxivAbstract(f)
                p == [papers[i] EXCEPT !._abstract = r.v]
            IN  IF r.throws
                THEN /\ awaiting' = [awaiting EXCEPT ![i] = "failed"]
                     /\ mstage' = "rejected"
                     /\ UNCHANGED <<papers, fetches>>
                ELSE /\ papers' = [papers EXCEPT ![i] = p]
                     /\ awaiting' = [awaiting EXCEPT ![i] = afterAbstract(p)]
                     /\ fetches' = IF afterAbstract(p) = "text"
                                   THEN [fetches EXCEPT !.extractPaperText = @ + 1]
                                   ELSE fetches
                     /\ mstage' = IF anyFailed(awaiting') THEN "rejected"
                                  ELSE IF mstage = "fetching" /\ allSettled(awaiting')
                                  THEN "marshalled" ELSE mstage
    /\ ProduceWhenResolved
    /\ UNCHANGED <<restored, taken, given>>
    /\ UNCHANGED <<ent, inflight, issued, overlap, returned, lastSettle>>
    /\ UNCHANGED <<wfVars, histVars, tapeVars, docVars, cronVars, earlyVars>>

\* the retrieval of one paper's text settles: the field is assigned and the
\* callback returns, or the callback throws
FetchTextSettle ==
    /\ mstage \in {"fetching", "rejected"}
    /\ \E i \in 1..Len(papers) :
        /\ awaiting[i] = "text"
        /\ \E f \in TextFetches :
            LET r == extractPaperText(f)
            IN  IF r.throws
                THEN /\ awaiting' = [awaiting EXCEPT ![i] = "failed"]
                     /\ mstage' = "rejected"
                     /\ UNCHANGED papers
                ELSE /\ papers' = [papers EXCEPT ![i]._text = r.v]
                     /\ awaiting' = [awaiting EXCEPT ![i] = "done"]
                     /\ mstage' = IF mstage = "fetching" /\ allSettled(awaiting')
                                  THEN "marshalled" ELSE mstage
    /\ ProduceWhenResolved
    /\ UNCHANGED <<restored, taken, given, fetches>>
    /\ UNCHANGED <<ent, inflight, issued, overlap, returned, lastSettle>>
    /\ UNCHANGED <<wfVars, histVars, tapeVars, docVars, cronVars, earlyVars>>

NextFetch ==
    \/ Marshal
    \/ MarshalFetch
    \/ FetchAbstractSettle
    \/ FetchTextSettle

SpecFetch == Init /\ [][NextFetch]_vars

(***************************************************************************)
(* Extraction from a listing document.                                     *)
(***************************************************************************)
\* the workflow variant plays no part in the extraction
InitListing == Init /\ variant = "plain"

\* the document is parsed and the function runs to its return
ExtractListing ==
    /\ ~extracted.done
    /\ \E in \in ListingInputs :
        /\ doc' = in.doc
        /\ targetDate' = in.targetDate
        /\ extracted' = [done |-> TRUE,
                         found |-> extractArxivIdsForDate(in.doc, in.targetDate)]
    /\ UNCHANGED walk
    /\ UNCHANGED <<wfVars, histVars, tapeVars, entVars, marshalVars, fetchVars, cronVars, earlyVars>>

NextListing == ExtractListing

SpecListing == InitListing /\ [][NextListing]_vars

(***************************************************************************)
(* The scheduled process (src/paper_of_the_day.ts): the module registers   *)
(* a cron handler for 09:01 UTC of every day and then awaits workflow()    *)
(* itself.  Each invocation of workflow() is a run of its own, suspended   *)
(* at one await at a time; the event loop takes the runs' continuations    *)
(* in any order.  Of a run the model keeps the await it is suspended at,   *)
(* the day it read as today, the length of the listing, the number of      *)
(* candidates taken and whether it has a leader.                           *)
(***************************************************************************)
Runs == {"load", "cron"}

\* a run that has been invoked and has neither returned nor thrown
active(run) == run.pc \notin {"idle", "done", "failed"}

\* workflow() is entered: today = new Date(), await getArxivIdsForDate(today)
enterWorkflow(today) ==
    [pc |-> "listing", today |-> today, total |-> 0, processed |-> 0, leader |-> FALSE]

\* the for loop takes its next identifier, or is over: without a leader the
\* run returns, with one summarize is called and awaits paper.text()
nextIteration(run) ==
    IF run.processed < run.total
    THEN [run EXCEPT !.processed = @ + 1, !.pc = "sleep"]
    ELSE [run EXCEPT !.pc = IF run.leader THEN "text" ELSE "done"]

\* a run goes on
Step(r, run) ==
    /\ runs' = [runs EXCEPT ![r] = run]
    /\ UNCHANGED <<alive, day, cronDue>>

\* an await of the run throws: workflow() rejects.  The module awaits the
\* run made at load at its top level, so its rejection ends the process
Reject(r) ==
    /\ runs' = [runs EXCEPT ![r].pc = "failed"]
    /\ alive' = (alive /\ r # "load")
    /\ UNCHANGED <<day, cronDue>>

\* the module is loaded, before or after 09:01 of the day: Deno.cron
\* registers the handler and await workflow() starts the first run
Load ==
    /\ ~alive
    /\ \A r \in Runs : runs[r].pc = "idle"
    /\ alive' = TRUE
    /\ cronDue' \in BOOLEAN
    /\ runs' = [runs EXCEPT !["load"] = enterWorkflow(day)]
    /\ UNCHANGED <<day, tweeted>>
    /\ UNCHANGED <<wfVars, histVars, tapeVars, entVars, marshalVars, docVars, fetchVars, earlyVars>>

\* 09:01 UTC: the cron handler calls workflow(), unless its previous
\* invocation has not settled
CronFires ==
    /\ alive
    /\ cronDue
    /\ cronDue' = FALSE
    /\ runs' = IF active(runs["cron"]) THEN runs
               ELSE [runs EXCEPT !["cron"] = enterWorkflow(day)]
    /\ UNCHANGED <<alive, day, tweeted>>
    /\ UNCHANGED <<wfVars, histVars, tapeVars, entVars, marshalVars, docVars, fetchVars, earlyVars>>

\* midnight UTC
Midnight ==
    /\ alive
    /\ ~cronDue
    /\ day < MaxDays
    /\ day' = day + 1
    /\ cronDue' = TRUE
    /\ UNCHANGED <<alive, runs, tweeted>>
    /\ UNCHANGED <<wfVars, histVars, tapeVars, entVars, marshalVars, docVars, fetchVars, earlyVars>>

\* getArxivIdsForDate settles
RunListing(r) ==
    /\ alive
    /\ runs[r].pc = "listing"
    /\ \/ Reject(r)
       \/ \E n \in 0..MaxCronCands : Step(r, nextIteration([runs[r] EXCEPT !.total = n]))
    /\ UNCHANGED tweeted
    /\ UNCHANGED <<wfVars, histVars, tapeVars, entVars, marshalVars, docVars, fetchVars, earlyVars>>

\* the timer of one second fires: new Paper(id), paper.abstract() is called
RunSleep(r) ==
    /\ alive
    /\ runs[r].pc = "sleep"
    /\ Step(r, [runs[r] EXCEPT !.pc = "abstract"])
    /\ UNCHANGED tweeted
    /\ UNCHANGED <<wfVars, histVars, tapeVars, entVars, marshalVars, docVars, fetchVars, earlyVars>>

\* getArxivAbstract settles: alignedWithCentML issues its request
RunAbstract(r) ==
    /\ alive
    /\ runs[r].pc = "abstract"
    /\ \E f \in AbstractFetches :
        IF getArxivAbstract(f).throws THEN Reject(r)
        ELSE Step(r, [runs[r] EXCEPT !.pc = "classify"])
    /\ UNCHANGED tweeted
    /\ UNCHANGED <<wfVars, histVars, tapeVars, entVars, marshalVars, docVars, fetchVars, earlyVars>>

\* the classifier's request settles
RunClassify(r) ==
    /\ alive
    /\ runs[r].pc = "classify"
    /\ \E resp \in ClassifierResponses("plain") :
        LET a == alignedWithCentML("plain", resp)
        IN  IF a.throws THEN Reject(r)
            ELSE IF ~Truthy(a.v) THEN Step(r, nextIteration(runs[r]))
            ELSE IF runs[r].leader THEN Step(r, [runs[r] EXCEPT !.pc = "compare"])
            ELSE Step(r, nextIteration([runs[r] EXCEPT !.leader = TRUE]))
    /\ UNCHANGED tweeted
    /\ UNCHANGED <<wfVars, histVars, tapeVars, entVars, marshalVars, docVars, fetchVars, earlyVars>>

\* the comparator's request settles: one of the two papers leads
RunCompare(r) ==
    /\ alive
    /\ runs[r].pc = "compare"
    /\ \E resp \in ComparatorResponses("plain") :
        IF mostImpactfulPlain(resp).status = "throws" THEN Reject(r)
        ELSE Step(r, nextIteration(runs[r]))
    /\ UNCHANGED tweeted
    /\ UNCHANGED <<wfVars, histVars, tapeVars, entVars, marshalVars, docVars, fetchVars, earlyVars>>

\* extractPaperText settles: summarize issues its request
RunText(r) ==
    /\ alive
    /\ runs[r].pc = "text"
    /\ \E f \in TextFetches :
        IF extractPaperText(f).throws THEN Reject(r)
        ELSE Step(r, [runs[r] EXCEPT !.pc = "summarize"])
    /\ UNCHANGED tweeted
    /\ UNCHANGED <<wfVars, histVars, tapeVars, entVars, marshalVars, docVars, fetchVars, earlyVars>>

\* the summarizer's request settles: tweet(summary) is called if ENABLE_TWEET
\* is "true"
RunSummarize(r) ==
    /\ alive
    /\ runs[r].pc = "summarize"
    /\ \E resp \in SummarizerResponses("plain"), env \in EnableTweetValues :
        IF summarize("plain", resp).throws
        THEN Reject(r) /\ UNCHANGED tweeted
        ELSE IF tweetEnabled(env)
        THEN /\ Step(r, [runs[r] EXCEPT !.pc = "tweet"])
             /\ tweeted' = Append(tweeted, [run |-> r, today |-> runs[r].today])
        ELSE Step(r, [runs[r] EXCEPT !.pc = "done"]) /\ UNCHANGED tweeted
    /\ UNCHANGED <<wfVars, histVars, tapeVars, entVars, marshalVars, docVars, fetchVars, earlyVars>>

\* tweet(summary) settles
RunTweet(r) ==
    /\ alive
    /\ runs[r].pc = "tweet"
    /\ \/ Reject(r)
       \/ Step(r, [runs[r] EXCEPT !.pc = "done"])
    /\ UNCHANGED tweeted
    /\ UNCHANGED <<wfVars, histVars, tapeVars, entVars, marshalVars, docVars, fetchVars, earlyVars>>

NextCron ==
    \/ Load
    \/ CronFires
    \/ Midnight
    \/ \E r \in Runs : RunListing(r)
    \/ \E r \in Runs : RunSleep(r)
    \/ \E r \in Runs : RunAbstract(r)
    \/ \E r \in Runs : RunClassify(r)
    \/ \E r \in Runs : RunCompare(r)
    \/ \E r \in Runs : RunText(r)
    \/ \E r \in Runs : RunSummarize(r)
    \/ \E r \in Runs : RunTweet(r)

SpecCron == InitListing /\ [][NextCron]_vars

(***************************************************************************)
(* The earliest iteration of the workflow (src/unnamed/part_001).  Its     *)
(* getArxivAbstract catches every failure and returns null; its loop       *)
(* counts the accepted candidates and breaks behind the third; behind the  *)
(* loop it reads leadingPaper!.arxivId.  Of the run the model keeps the    *)
(* await it is suspended at, the length of the listing, the position of    *)
(* the identifier taken, the position of the leading paper (0 for null),   *)
(* count, how many candidates the classifier accepted, how often           *)
(* summarizeWithTweetThread was called, and the error that ended the run.  *)
(***************************************************************************)
\* getArxivAbstract of part_001, given what the fetch of the page delivers:
\* the cleaned abstract, null for a failure and for an empty abstract
getArxivAbstractOrNull(f) ==
    IF f.kind # "page" THEN JSNull
    ELSE LET result == cleanAbstract(f.text)
         IN  IF result = <<>> THEN JSNull ELSE JSString(result)

\* the run throws
earlyThrows(e, what) == [e EXCEPT !.pc = "failed", !.error = what]

\* behind the loop: console.log(..., leadingPaper!.arxivId) throws a
\* TypeError for null; otherwise summarizeWithTweetThread is called and
\* awaits paper.text()
afterLoop(e) ==
    IF e.leadingPaper = 0 THEN earlyThrows(e, "TypeError")
    ELSE [e EXCEPT !.pc = "text", !.summarize = @ + 1]

\* for (const id of axrivids): the next identifier, getArxivAbstract(id)
nextId(e) ==
    IF e.taken < e.total THEN [e EXCEPT !.taken = @ + 1, !.pc = "abstract"]
    ELSE afterLoop(e)

\* count++; if (count > 2) break
countAndBreak(e) ==
    LET c == [e EXCEPT !.count = @ + 1]
    IN  IF c.count > 2 THEN afterLoop(c) ELSE nextId(c)

\* the listing is fetched and extractArxivIdsForDate has returned
EarlyListing ==
    /\ early.pc = "start"
    /\ \/ early' = earlyThrows(early, "fetch")
       \/ \E n \in 0..MaxEarlyCands : early' = nextId([early EXCEPT !.total = n])
    /\ UNCHANGED <<wfVars, histVars, tapeVars, entVars, marshalVars, docVars, fetchVars, cronVars>>

\* getArxivAbstract settles: if (!abstract) continue
EarlyAbstract ==
    /\ early.pc = "abstract"
    /\ \E f \in AbstractFetches :
        early' = IF Truthy(getArxivAbstractOrNull(f))
                 THEN [early EXCEPT !.pc = "classify"]
                 ELSE nextId(early)
    /\ UNCHANGED <<wfVars, histVars, tapeVars, entVars, marshalVars, docVars, fetchVars, cronVars>>

\* the classifier's request settles
EarlyClassify ==
    /\ early.pc = "classify"
    /\ \E resp \in StreamingClassifierResponses :
        LET a == alignedStreaming(resp)
        IN  early' = IF a.throws THEN earlyThrows(early, "alignedWithCentML")
                     ELSE IF ~Truthy(a.v) THEN nextId(early)
                     ELSE IF early.leadingPaper # 0
                     THEN [early EXCEPT !.accepted = @ + 1, !.pc = "compare"]
                     ELSE [early EXCEPT !.accepted = @ + 1, !.leadingPaper = early.taken,
                                        !.pc = "sleep"]
    /\ UNCHANGED <<wfVars, histVars, tapeVars, entVars, marshalVars, docVars, fetchVars, cronVars>>

\* the comparator's request settles
EarlyCompare ==
    /\ early.pc = "compare"
    /\ \E resp \in PlainComparatorResponses :
        LET c == mostImpactfulPlain(resp)
        IN  early' = IF c.status = "throws" THEN earlyThrows(early, "mostImpactful")
                     ELSE [early EXCEPT !.pc = "sleep",
                             !.leadingPaper = IF c.pick = 1 THEN @ ELSE early.taken]
    /\ UNCHANGED <<wfVars, histVars, tapeVars, entVars, marshalVars, docVars, fetchVars, cronVars>>

\* the timer of one second fires
EarlySleep ==
    /\ early.pc = "sleep"
    /\ early' = countAndBreak(early)
    /\ UNCHANGED <<wfVars, histVars, tapeVars, entVars, marshalVars, docVars, fetchVars, cronVars>>

\* paper.text() settles: the summarizer's request is issued
EarlyText ==
    /\ early.pc = "text"
    /\ \E f \in TextFetches :
        early' = IF extractPaperText(f).throws THEN earlyThrows(early, "text")
                 ELSE [early EXCEPT !.pc = "summarize"]
    /\ UNCHANGED <<wfVars, histVars, tapeVars, entVars, marshalVars, docVars, fetchVars, cronVars>>

\* the summarizer's request settles; an answer that is not JSON is caught
EarlySummarize ==
    /\ early.pc = "summarize"
    /\ \E resp \in StreamingSummarizerResponses :
        early' = IF resp.err # "none" THEN earlyThrows(early, "summarizeWithTweetThread")
                 ELSE [early EXCEPT !.pc = "done"]
    /\ UNCHANGED <<wfVars, histVars, tapeVars, entVars, marshalVars, docVars, fetchVars, cronVars>>

NextEarly ==
    \/ EarlyListing
    \/ EarlyAbstract
    \/ EarlyClassify
    \/ EarlyCompare
    \/ EarlySleep
    \/ EarlyText
    \/ EarlySummarize

SpecEarly == InitListing /\ [][NextEarly]_vars

(***************************************************************************)
(* Properties of the tournament.                                           *)
(***************************************************************************)
\* what a comparator answer of the streaming form says: the content of the
\* response without the surrounding white space
saidByComparator(resp) == trim(accumulateContent(resp.chunks))

\* a comparator response that arrived and says 1 or 2
parsesToPick(resp) == resp.err = "none" /\ saidByComparator(resp) \in {TXT_1, TXT_2}

\* a comparator response that arrived and says neither 1 nor 2
failsToParse(resp) == resp.err = "none" /\ saidByComparator(resp) \notin {TXT_1, TXT_2}

\* the comparator of the retry workflow was asked twice for one pairing
askedTwice == variant = "retry" /\ lastCompare.requests = 2

\* the elements of a set of positions in ascending order
RECURSIVE ascending(_)
ascending(S) ==
    IF S = {} THEN <<>>
    ELSE LET m == CHOOSE x \in S : \A y \in S : x <= y
         IN  <<m>> \o ascending(S \ {m})

\* the largest of a non-empty set of positions
last(S) == CHOOSE x \in S : \A y \in S : y <= x

\* C1: when the comparator's first answer and its retry answer both fail to
\* parse to 1 or 2, the run is aborted with the comparator's error: no
\* summarizer request and no tweet were or will be issued, the candidates
\* after the pairing stay unprocessed, and an aborted run takes no further step
C1_DoubleInvalidAborts ==
    /\ [](askedTwice /\ failsToParse(lastCompare.first) /\ failsToParse(lastCompare.second)
            => /\ pc = "aborted"
               /\ error = "mostImpactful"
               /\ processed = lastCompare.paper2
               /\ calls.getArxivAbstract = processed
               /\ calls.alignedWithCentML = processed
               /\ calls.summarize = 0
               /\ calls.extractPaperText = 0
               /\ calls.tweet = 0
               /\ tweets = <<>>)
    /\ [][pc = "aborted" => UNCHANGED <<wfVars, calls>>]_vars

\* C1: the run is aborted after two invalid answers while a candidate is
\* still waiting behind the pairing
C1_Witness ==
    /\ askedTwice
    /\ failsToParse(lastCompare.first)
    /\ failsToParse(lastCompare.second)
    /\ pc = "aborted"
    /\ processed < Len(arxivIds)

\* C2: when the first answer is invalid and the retry answer is valid, the
\* comparator does not fail and the leader is the paper the retry answer names
C2_RetryAnswerDecides ==
    askedTwice /\ failsToParse(lastCompare.first) /\ parsesToPick(lastCompare.second)
        => /\ ~(pc = "aborted" /\ error = "mostImpactful")
           /\ leadingPaper.ref = IF saidByComparator(lastCompare.second) = TXT_1
                                 THEN lastCompare.paper1
                                 ELSE lastCompare.paper2

\* C3: the leader is null exactly while no candidate was accepted and never
\* becomes null again; it is an accepted candidate, namely the winner of the
\* most recent pairing that returned (the first accepted candidate before any
\* pairing); a candidate that lost a pairing is not the leader and is not
\* handed to the comparator again
C3_LeaderInvariant ==
    /\ [](pc # "start" =>
            /\ (leadingPaper = NULL) <=> (accepted = {})
            /\ leadingPaper # NULL =>
                /\ leadingPaper.ref \in accepted
                /\ leadingPaper.ref \notin losers
                /\ leadingPaper.ref =
                     IF lastPairing.pick = 1 THEN lastPairing.paper1
                     ELSE IF lastPairing.pick = 2 THEN lastPairing.paper2
                     ELSE ascending(accepted)[1]
            /\ pc \in {"compare", "clarify"} =>
                /\ paper.ref \notin losers
                /\ leadingPaper.ref \notin losers
                /\ paper.ref \in accepted)
    /\ [][pc # "start" /\ leadingPaper # NULL => leadingPaper' # NULL]_vars

\* C3: a run has ended in which the leader changed hands and a later
\* candidate lost against the new leader
C3_Witness ==
    /\ pc = "done"
    /\ accepted = {1, 2, 3}
    /\ losers = {1, 3}
    /\ leadingPaper.ref = 2

\* C4: when every comparator answer is 2, the leaders in order are the
\* accepted candidates in order, and the leader is the last accepted one
C4_AlwaysTwo ==
    onlyTwo /\ pc \notin {"start", "compare"}
        => /\ leaders = ascending(accepted)
           /\ accepted # {} => leadingPaper.ref = last(accepted)
           /\ accepted = {} => leadingPaper = NULL

\* C4: candidates p1, p2, p3 of which p2 and p3 are accepted: the leader was
\* p2, then p3, and the run ends with p3
C4_Witness ==
    /\ pc = "done"
    /\ onlyTwo
    /\ rejected = {1}
    /\ accepted = {2, 3}
    /\ leaders = <<2, 3>>
    /\ calls.mostImpactful = 1
    /\ leadingPaper.ref = 3

\* the run has ended
ended == pc \in {"done", "aborted"}

\* the final state of the run: how it ended and the position of its leader
Outcome == [pc |-> pc, leader |-> leadingPaper.ref, error |-> error]

\* The reduction as a function of the inputs.  A state of it: the length of
\* the listing, the candidates whose abstract has arrived, the position of
\* the leader (0: none), and how the run has ended if it has.
NoReduction ==
    [length |-> 0, seen |-> 0, leader |-> 0, pc |-> "running", error |-> ""]

failsAt(st, at) == [st EXCEPT !.pc = "aborted", !.error = at]

\* the answer of the comparator: it has thrown, it is asked again, or it
\* has named paper1 (the leader) or paper2 (the candidate)
compared(st, r) ==
    IF r.status = "throws" THEN failsAt(st, "mostImpactful")
    ELSE IF r.status = "retry" THEN st
    ELSE IF r.pick = 2 THEN [st EXCEPT !.leader = st.seen]
    ELSE st

\* the state of the reduction after one more input
receive(st, e) ==
    CASE e.k = "listing" ->
            IF e.x.throws THEN failsAt(st, "getArxivIdsForDate")
            ELSE [st EXCEPT !.length = Len(e.x.ids)]
      [] e.k = "abstract" ->
            IF e.x THEN failsAt(st, "abstract") ELSE [st EXCEPT !.seen = @ + 1]
      [] e.k = "classify" ->
            IF e.x = "throws" THEN failsAt(st, "alignedWithCentML")
            ELSE IF e.x = "yes" /\ st.leader = 0 THEN [st EXCEPT !.leader = st.seen]
            ELSE st
      [] e.k \in {"compare", "clarify"} -> compared(st, e.x)
      [] e.k = "text" ->
            IF e.x THEN failsAt(st, "text") ELSE st
      [] e.k = "summarize" ->
            IF e.x.throws THEN failsAt(st, "summarize")
            ELSE IF e.x.tweet THEN st
            ELSE [st EXCEPT !.pc = "done"]
      [] OTHER ->
            IF e.x THEN [st EXCEPT !.pc = "done"] ELSE failsAt(st, "tweet")

RECURSIVE reduction(_, _, _)
reduction(t, i, st) ==
    IF i > Len(t) THEN st ELSE reduction(t, i + 1, receive(st, t[i]))

\* the final state of a run whose inputs have brought the reduction to st
\* and that receives no more: a run that met no leader ends when its list
\* is exhausted
reductionOf(st) ==
    [pc |-> IF st.pc = "running" /\ st.leader = 0 /\ st.seen = st.length
         THEN "done" ELSE st.pc,
     leader |-> st.leader,
     error |-> st.error]

\* C5: the final state of a run, that is the way it ended, its leader and
\* the site of its abort, is the value of one function (reduction) of
\* the inputs the run received: the candidate sequence, the outcomes of
\* the retrievals, the classifier answers and the comparator answers,
\* clarification answers included.  Two runs that receive the same inputs
\* hence end in the same final state.  All along, the leader is the leader
\* of the reduction of the inputs received so far.
C5_ReductionDeterministic ==
    mode = "record"
        => LET st == reduction(tape, 1, NoReduction)
           IN  /\ leadingPaper.ref = st.leader
               /\ leadingPaper # NULL
                     => leadingPaper.arxivId = JSString(arxivIds[leadingPaper.ref])
               /\ st.pc # "running" => ended
               /\ ended => Outcome = reductionOf(st)

\* C5: a recorded run over three candidates has ended after two pairings:
\* the second candidate won the first and kept the lead in the second
C5_Witness ==
    /\ mode = "record"
    /\ pc = "done"
    /\ Len(arxivIds) = 3
    /\ accepted = {1, 2, 3}
    /\ leaders = <<1, 2>>
    /\ lastPairing = [paper1 |-> 2, paper2 |-> 3, pick |-> 1]
    /\ Cardinality({i \in 1..Len(tape) : tape[i].k = "compare"}) = 2
    /\ Outcome = [pc |-> "done", leader |-> 2, error |-> ""]

\* C5: a recorded run was aborted after the answer to a clarification request
C5_WitnessAbort ==
    /\ mode = "record"
    /\ pc = "aborted"
    /\ tape[Len(tape)].k = "clarify"
    /\ Outcome.leader = 1
    /\ Outcome.error = "mostImpactful"

\* the listing was delivered and the classifier has rejected every candidate
allRejected ==
    /\ pc # "start"
    /\ error # "getArxivIdsForDate"
    /\ rejected = 1..Len(arxivIds)

\* C6: when the classifier rejects every candidate (none at all included),
\* the leader is null, neither the comparator nor summarize nor tweet is
\* invoked, no error is raised, and the run ends at the end of the loop
C6_AllRejected ==
    /\ [](allRejected =>
            /\ leadingPaper = NULL
            /\ leaders = <<>>
            /\ calls.mostImpactful = 0
            /\ calls.comparatorRequests = 0
            /\ calls.summarize = 0
            /\ calls.extractPaperText = 0
            /\ calls.tweet = 0
            /\ tweets = <<>>
            /\ error = ""
            /\ pc \in {"loop", "done"}
            /\ processed = Len(arxivIds))
    /\ [][allRejected /\ pc = "loop" => pc' = "done"]_vars

\* C6: a run over three candidates, all rejected, has ended
C6_Witness ==
    /\ allRejected
    /\ Len(arxivIds) = 3
    /\ pc = "done"

\* a classifier answer that arrived and is malformed: in the streaming form a
\* text that says neither yes nor no, in the schema form a content that is
\* not JSON or is JSON without a boolean result
malformedAnswer(v, resp) ==
    /\ resp.err = "none"
    /\ IF v = "schema"
       THEN LET j == JSONparse(messageContent(resp))
            IN  \/ j.throws
                \/ GetProperty(j.v, TXT_result).throws
                \/ GetProperty(j.v, TXT_result).v.t # "boolean"
       ELSE LET said == toLowerCase(trim(accumulateContent(resp.chunks)))
            IN  ~startsWith(said, TXT_yes) /\ ~startsWith(said, <<"n", "o">>)

\* the candidate of the last classifier exchange was left out, the leader is
\* the one from before the exchange and the classifier did not end the run
excludedAndContinued ==
    /\ lastOracle.candidate \notin accepted
    /\ leadingPaper.ref = lastOracle.leaderBefore
    /\ ~(pc = "aborted" /\ error = "alignedWithCentML")

\* C7: after a malformed classifier answer the candidate is excluded, the
\* leader is unchanged and the run is not aborted by the classifier
C7_MalformedExcluded ==
    lastOracle.candidate # 0 /\ malformedAnswer(variant, lastOracle.resp)
        => excludedAndContinued

\* C8: after a classifier request or stream that failed the candidate is
\* excluded, the leader is unchanged and the run is not aborted by the
\* classifier
C8_UnreachableRecovered ==
    lastOracle.candidate # 0 /\ lastOracle.resp.err \in {"request", "stream"}
        => excludedAndContinued

(***************************************************************************)
(* Properties of the Paper entity.                                         *)
(***************************************************************************)
\* the completed calls of one method, in the order of their completion
returnsOf(method) == SelectSeq(returned, LAMBDA c : c.method = method)

\* the calls were sequential and the first call of the method succeeded
firstSucceeded(method) ==
    /\ ~overlap
    /\ returnsOf(method) # <<>>
    /\ ~returnsOf(method)[1].throws

\* every completed call of the method returned what the first returned
allReturnFirst(method) ==
    \A i \in 1..Len(returnsOf(method)) :
        /\ ~returnsOf(method)[i].throws
        /\ returnsOf(method)[i].value = returnsOf(method)[1].value

\* C9: sequential calls of abstract() of which the first succeeds invoke
\* getArxivAbstract exactly once and all return the same value
C9_AbstractOnce ==
    firstSucceeded("abstract")
        => fetches.getArxivAbstract = 1 /\ allReturnFirst("abstract")

\* C9: three sequential calls of abstract() have returned after one retrieval
C9_Witness ==
    /\ firstSucceeded("abstract")
    /\ Len(returnsOf("abstract")) = 3
    /\ fetches.getArxivAbstract = 1

\* C10: sequential calls of text() of which the first succeeds, with an
\* empty text or any other, invoke extractPaperText exactly once and all
\* return the cached value
C10_TextOnce ==
    firstSucceeded("text")
        => fetches.extractPaperText = 1 /\ allReturnFirst("text")

\* every completed call of the method returned a text that is not empty
noneFailedOrEmpty(method) ==
    \A i \in 1..Len(returnsOf(method)) :
        ~returnsOf(method)[i].throws /\ returnsOf(method)[i].value.s # <<>>

\* C11: also when calls overlap, each retrieval operation is invoked at most
\* once for the entity, as long as no retrieval failed or came back empty
C11_AtMostOnceInterleaved ==
    /\ noneFailedOrEmpty("abstract") => fetches.getArxivAbstract <= 1
    /\ noneFailedOrEmpty("text") => fetches.extractPaperText <= 1

\* the fetch of the last settled retrieval failed: transport error, HTTP
\* error status, unparseable document or missing abstract block
lastRetrievalFailed ==
    /\ lastSettle.id # 0
    /\ lastSettle.f.kind \in {"network", "http", "nodoc", "noblock"}

\* C12: a call of abstract() or text() whose retrieval failed ends by
\* throwing: it returns no text, and it caches none
C12_FailurePropagates ==
    lastRetrievalFailed
        => \E i \in 1..Len(returned) :
              /\ returned[i].id = lastSettle.id
              /\ returned[i].method = lastSettle.method
              /\ returned[i].throws
              /\ \A j \in 1..Len(returned) : returned[j].id = lastSettle.id => j = i

\* C12: an abstract() call whose page had no abstract block has thrown, and
\* so has a text() call whose fetch failed
C12_Witness ==
    /\ lastRetrievalFailed
    /\ \E i, j \in 1..Len(returned) :
          /\ returned[i].method = "abstract" /\ returned[i].throws
          /\ returned[j].method = "text" /\ returned[j].throws
    /\ ent = NewPaper(1, ent.arxivId)

\* the restored list has the length of the marshalled one and each restored
\* paper the identifier and the cached fields of the paper at its position,
\* no other own property, and the prototype of the class
sameAsMarshalled ==
    /\ ~restored.throws
    /\ Len(restored.list) = Len(papers)
    /\ \A i \in 1..Len(papers) :
          /\ restored.list[i].arxivId = papers[i].arxivId
          /\ restored.list[i]._abstract = papers[i]._abstract
          /\ restored.list[i]._text = papers[i]._text
          /\ restored.list[i].extra = <<>>
          /\ restored.list[i].proto = "Paper"

\* the calls of the method on the restored paper all returned the text cached
\* before serialization, and the retrieval was never invoked
servedFromCache(method, retrieval, cached) ==
    cached.s # <<>>
        => /\ fetches[retrieval] = 0
           /\ \A i \in 1..Len(returnsOf(method)) :
                 ~returnsOf(method)[i].throws /\ returnsOf(method)[i].value = cached

\* C13: unmarshalPapers(marshalPapers(papers)) has the length and order of
\* papers, each restored paper has the identifier, abstract and text of the
\* original, and a field that was resolved to a non-empty text is returned
\* by abstract() / text() of the restored paper without a retrieval
C13_RoundTrip ==
    /\ mstage \in {"restored", "taken"} => sameAsMarshalled
    /\ mstage = "taken" =>
          /\ servedFromCache("abstract", "getArxivAbstract", papers[taken]._abstract)
          /\ servedFromCache("text", "extractPaperText", papers[taken]._text)

\* C13: of two papers, one resolved and one not, the resolved one was
\* restored and has returned its abstract and its text, a text with a quote
\* and a line break, without a retrieval
C13_Witness ==
    /\ mstage = "taken"
    /\ Len(papers) = 2
    /\ \E i \in 1..2 : papers[i]._abstract.s = <<>> /\ papers[i]._text.s = <<>>
    /\ \E c \in {"\"", "\n"} : \E k \in 1..Len(papers[taken]._text.s) : papers[taken]._text.s[k] = c
    /\ papers[taken]._abstract.s # <<>>
    /\ returnsOf("abstract") # <<>>
    /\ returnsOf("text") # <<>>
    /\ fetches = [getArxivAbstract |-> 0, extractPaperText |-> 0]

(***************************************************************************)
(* Properties of the summarizer's answer and of the publication.           *)
(***************************************************************************)
\* the summarizer's answer is malformed: the schema summarize got empty
\* content, content that is not JSON, or JSON whose result is missing or is
\* not a string; the streaming summarize accumulated an empty completion
malformedSummary(v, resp) ==
    /\ resp.err = "none"
    /\ IF v = "schema"
       THEN LET j == JSONparse(messageContent(resp))
            IN  \/ messageContent(resp) = <<>>
                \/ j.throws
                \/ GetProperty(j.v, TXT_result).throws
                \/ GetProperty(j.v, TXT_result).v.t # "string"
       ELSE accumulateContent(resp.chunks) = <<>>

\* C18: a malformed answer of the summarizer is fatal for the run: summarize
\* returns no value to the workflow, the run is aborted without a summary,
\* and tweet is not called
C18_MalformedSummaryFatal ==
    lastSummarize.settled /\ malformedSummary(variant, lastSummarize.resp)
        => /\ lastSummarize.throws
           /\ pc = "aborted"
           /\ summary = JSUndefined
           /\ calls.tweet = 0
           /\ tweets = <<>>

\* the oracle's answer is exactly the number n: the cleaned text is the one
\* digit, or the result of the JSON answer is the integer
answerIsExactly(v, resp, n) ==
    /\ resp.err = "none"
    /\ IF v = "schema"
       THEN LET j == JSONparse(messageContent(resp))
            IN  /\ ~j.throws
                /\ ~GetProperty(j.v, TXT_result).throws
                /\ GetProperty(j.v, TXT_result).v = JSNumber(n)
       ELSE LET text == IF v = "plain"
                        THEN splitPop(accumulateContent(resp.chunks), THINK_END)
                        ELSE accumulateContent(resp.chunks)
            IN  cleanAnswer(text) = <<Digits[n + 1]>>

\* C19: a paper returned by the comparator was validated: when the last
\* pairing returned paper 1, an answer of the oracle in that pairing was
\* exactly 1, and when it returned paper 2, an answer was exactly 2
C19_PickValidated ==
    /\ lastPairing.pick # 0
    /\ lastCompare.paper1 = lastPairing.paper1
    /\ lastCompare.paper2 = lastPairing.paper2
    => \/ answerIsExactly(variant, lastCompare.first, lastPairing.pick)
       \/ /\ lastCompare.requests = 2
          /\ answerIsExactly(variant, lastCompare.second, lastPairing.pick)

\* C20: in a run tweet is called at most once; it is called only when the
\* value read for ENABLE_TWEET is "true", only in the step in which summarize
\* returned a value for a leader that is not null, and never by a run that
\* was aborted
C20_TweetGated ==
    /\ [](calls.tweet <= 1 /\ Len(tweets) <= calls.tweet)
    /\ [](calls.tweet = 1
            => /\ lastSummarize.settled
               /\ ~lastSummarize.throws
               /\ lastSummarize.env = "true"
               /\ leadingPaper # NULL
               /\ calls.summarize = 1)
    /\ [][calls'.tweet # calls.tweet => pc = "summarize" /\ pc' = "tweet"]_vars
    /\ [][pc = "aborted" => calls'.tweet = calls.tweet /\ tweets' = tweets]_vars

\* C20: a run read "true" for the flag, called tweet once with the summary
\* and ended
C20_Witness ==
    /\ pc = "done"
    /\ calls.tweet = 1
    /\ lastSummarize.env = "true"
    /\ leadingPaper # NULL
    /\ tweets = <<summary>>

(***************************************************************************)
(* Properties of the order of the steps of a run.                          *)
(***************************************************************************)
\* C21: at most one oracle request is in flight at any time, and a request
\* is issued only in a step after which no other request is in flight
C21_OneOracleCall ==
    /\ [](Cardinality(pending) <= 1)
    /\ [][\A c \in pending' \ pending : pending' = {c}]_vars

\* C21: the comparator's first request has settled and its clarification
\* request is the only one in flight
C21_Witness ==
    /\ pc = "clarify"
    /\ calls.alignedWithCentML = 2
    /\ calls.comparatorRequests = 2
    /\ pending = {OracleCall("clarification", paper.ref)}

\* the positions of the candidates the classifier has answered for
classified == accepted \cup rejected

\* C22: the candidates are taken in the order of the list, one at a time and
\* each once: the retrieval, the classification and the pairing in progress
\* are those of the candidate at position processed, every candidate before
\* it is finished, the next one is taken only when nothing of the current one
\* is left (its retrieval starts when the pacing delay has passed), and
\* summarize is called only when the last one is finished
C22_InExtractionOrder ==
    /\ [](pc \in {"abstract", "classify", "compare", "clarify"}
            => /\ paper.ref = processed
               /\ paper.arxivId = JSString(arxivIds[processed])
               /\ classified \in {1..(processed - 1), 1..processed}
               /\ \A c \in pending : c.ref = processed)
    /\ [](pc = "loop" => classified = 1..processed /\ pending = {})
    /\ [](pc = "delay" => classified = 1..(processed - 1) /\ pending = {})
    /\ [](/\ accepted \cap rejected = {}
          /\ calls.getArxivAbstract = (IF pc = "delay" THEN processed - 1 ELSE processed)
          /\ calls.alignedWithCentML \in {Cardinality(classified), Cardinality(classified) + 1}
          /\ calls.mostImpactful <= Cardinality(accepted))
    /\ [](calls.summarize > 0 => processed = Len(arxivIds) /\ classified = 1..Len(arxivIds))
    /\ [][processed' # processed => processed' = processed + 1 /\ pc = "loop"]_vars

\* C22: a run over three candidates, of which the classifier accepted two
\* and rejected one, has come to the call of summarize
C22_Witness ==
    /\ Len(arxivIds) = 3
    /\ processed = 3
    /\ Cardinality(accepted) = 2
    /\ Cardinality(rejected) = 1
    /\ calls.mostImpactful = 1
    /\ calls.summarize = 1

\* the comparator's answer parses to 1 or 2: the cleaned text of the
\* streaming comparator begins with the digit, the result of the schema
\* comparator is the integer
parsesToOneOrTwo(v, resp) ==
    IF v = "schema"
    THEN answerIsExactly(v, resp, 1) \/ answerIsExactly(v, resp, 2)
    ELSE /\ resp.err = "none"
         /\ \/ startsWith(cleanAnswer(accumulateContent(resp.chunks)), TXT_1)
            \/ startsWith(cleanAnswer(accumulateContent(resp.chunks)), TXT_2)

\* a second request was issued for the last pairing
secondIssued == pc = "clarify" \/ lastCompare.requests = 2

\* C23: for a pairing of the comparator with retry or of the schema
\* comparator whose first answer arrived, a second request is issued if and
\* only if the first answer does not parse to 1 or 2, and never a third
C23_RetryExactlyOnce ==
    /\ variant \in {"retry", "schema"}
    /\ lastCompare.requests >= 1
    /\ lastCompare.first.err = "none"
    => /\ secondIssued <=> ~parsesToOneOrTwo(variant, lastCompare.first)
       /\ lastCompare.requests <= 2
       /\ calls.comparatorRequests <= 2 * calls.mostImpactful

\* what the oracle put out in answer to the first request of the last pairing
priorOutput ==
    accumulateReasoning(lastCompare.first.chunks) \o accumulateContent(lastCompare.first.chunks)

\* C24: the conversation of the clarification request is that of the first
\* request, the system message and the user message with the two abstracts,
\* followed by an assistant message with the oracle's prior output and a
\* user message that asks for 1 or 2 only
C24_RetryConversation ==
    pc = "clarify"
        => /\ Len(messages) = 4
           /\ messages[1] = Message("system", "instruction", <<>>)
           /\ messages[2] = Message("user", "prompt", <<leadingPaper._abstract.s, paper._abstract.s>>)
           /\ messages[3] = Message("assistant", "prior", <<priorOutput>>)
           /\ messages[4] = Message("user", "answer with 1 or 2 only", <<>>)

\* C24: the clarification request is in flight after a first answer that
\* was not empty
C24_Witness ==
    /\ pc = "clarify"
    /\ pending = {OracleCall("clarification", paper.ref)}
    /\ priorOutput # <<>>
    /\ leadingPaper._abstract.s # <<>>
    /\ Len(messages) = 4

\* the classifier has just accepted the candidate in this step
acceptsNow == pc = "classify" /\ accepted' # accepted

\* C25: a candidate accepted while there is no leader becomes the leader in
\* that step, with no call of the comparator and no request to the oracle;
\* mostImpactful is called only for a candidate accepted while there is a
\* leader, once for each such candidate
C25_FirstAcceptedLeads ==
    /\ [][acceptsNow /\ leadingPaper = NULL
            => /\ leadingPaper' = paper
               /\ calls'.mostImpactful = calls.mostImpactful
               /\ calls'.comparatorRequests = calls.comparatorRequests
               /\ pending' = {}
               /\ pc' = "loop"]_vars
    /\ [][calls'.mostImpactful # calls.mostImpactful
            => /\ acceptsNow
               /\ leadingPaper # NULL
               /\ calls'.mostImpactful = calls.mostImpactful + 1
               /\ pending' = {OracleCall("comparator", paper.ref)}]_vars
    /\ [](calls.mostImpactful = IF accepted = {} THEN 0 ELSE Cardinality(accepted) - 1)

\* C25: the first of two accepted candidates took the lead without a
\* pairing, the second was paired with it
C25_Witness ==
    /\ pc = "compare"
    /\ accepted = {1, 2}
    /\ leaders = <<1>>
    /\ leadingPaper.ref = 1
    /\ calls.mostImpactful = 1
    /\ calls.comparatorRequests = 1

\* the classifier has just rejected the candidate in this step
rejectsNow == pc = "classify" /\ rejected' # rejected

\* C26: the step in which the classifier rejects a candidate leaves the
\* leader as it is and calls neither the comparator nor the oracle; a
\* rejected candidate is never the leader, never an argument of the
\* comparator, and never the paper whose text is retrieved
C26_RejectedIsSkipped ==
    /\ [][rejectsNow
            => /\ leadingPaper' = leadingPaper
               /\ leaders' = leaders
               /\ calls'.mostImpactful = calls.mostImpactful
               /\ calls'.comparatorRequests = calls.comparatorRequests
               /\ calls'.extractPaperText = calls.extractPaperText
               /\ pending' = {}
               /\ pc' = "loop"]_vars
    /\ [](/\ leadingPaper.ref \notin rejected
          /\ \A k \in 1..Len(leaders) : leaders[k] \notin rejected
          /\ lastCompare.paper1 \notin rejected
          /\ lastCompare.paper2 \notin rejected
          /\ \A c \in pending : c.kind # "classifier" => c.ref \notin rejected)
    /\ [][calls'.extractPaperText # calls.extractPaperText
            => leadingPaper.ref \in accepted /\ pc' = "text"]_vars

\* C26: the second candidate was rejected while the first led, the third
\* was accepted and paired with the first
C26_Witness ==
    /\ pc = "compare"
    /\ rejected = {2}
    /\ accepted = {1, 3}
    /\ leaders = <<1>>
    /\ lastOracle.candidate = 3
    /\ calls.mostImpactful = 1

\* mostImpactful has just returned a paper in this step
pairsNow == pc \in {"compare", "clarify"} /\ pc' = "loop"

\* C27: the prompt of a pairing names the leader's abstract as paper 1 and
\* the candidate's as paper 2; when the comparator returns on an answer that
\* is exactly 1 the leader stays, and on an answer that is exactly 2 the
\* candidate becomes the leader
C27_LeaderIsPaperOne ==
    /\ [](pc \in {"compare", "clarify"}
            => /\ leadingPaper # NULL
               /\ leadingPaper.ref < paper.ref
               /\ messages[2] = Message("user", "prompt",
                                        <<leadingPaper._abstract.s, paper._abstract.s>>))
    /\ [][pairsNow /\ answerIsExactly(variant, lastCompare'.first, 1)
            => leadingPaper' = leadingPaper /\ paper.ref \in losers']_vars
    /\ [][pairsNow /\ answerIsExactly(variant, lastCompare'.first, 2)
            => leadingPaper' = paper /\ leadingPaper.ref \in losers']_vars

\* C27: the second candidate overtook the first on an answer of 2, and the
\* third lost against the second on an answer of 1
C27_Witness ==
    /\ pc = "loop"
    /\ leaders = <<1, 2>>
    /\ lastCompare.paper1 = 2
    /\ lastCompare.paper2 = 3
    /\ answerIsExactly(variant, lastCompare.first, 1)
    /\ leadingPaper.ref = 2
    /\ losers = {1, 3}

(***************************************************************************)
(* Properties of the extraction from the listing document.                 *)
(***************************************************************************)
\* the navigation entry whose date is the target date, 0 for none
matchedEntry == matchingDateEntry(doc.nav, targetDate)

\* the canonical date phrase the code takes from the matched entry
canonicalPhrase == fullDateString(doc.nav[matchedEntry])

\* the heading the walk starts from, 0 for none
matchedHeading ==
    IF doc.parsed /\ matchedEntry # 0 THEN dateHeader(doc.articles, canonicalPhrase) ELSE 0

\* the abstract links of a node
abstractLinks(node) ==
    {k \in 1..Len(node.links) : startsWith(node.links[k], ABS_PREFIX)}

\* the identifier of a paper entry: the trailing path segment of its first
\* abstract link
identifierOf(node) ==
    LET k == CHOOSE x \in abstractLinks(node) : \A y \in abstractLinks(node) : x <= y
    IN  splitPop(node.links[k], <<"/">>)

\* the heading that ends the section of heading h: the position of the next
\* h3 after h, beyond the last node if there is none
sectionEnd(h) ==
    LET later == {j \in (h + 1)..Len(doc.articles) : doc.articles[j].tag = "h3"}
    IN  IF later = {} THEN Len(doc.articles) + 1
        ELSE CHOOSE x \in later : \A y \in later : x <= y

\* the identifiers of the paper entries in the section of heading h, in
\* document order
entriesUnder(h) ==
    LET contributes(j) ==
            /\ doc.articles[j].tag = "dt"
            /\ abstractLinks(doc.articles[j]) # {}
            /\ identifierOf(doc.articles[j]) # <<>>
        at == SelectSeq([j \in 1..(sectionEnd(h) - 1 - h) |-> h + j], contributes)
    IN  [k \in 1..Len(at) |-> identifierOf(doc.articles[at[k]])]

\* C14: when no navigation entry has the target date, or no heading under
\* dl#articles contains the canonical date phrase, the extraction returns
\* the empty list
C14_NoMatchIsEmpty ==
    /\ extracted.done
    /\ doc.parsed
    /\ \/ matchedEntry = 0
       \/ LET phrase == canonicalPhrase
          IN  \A j \in 1..Len(doc.articles) :
                 doc.articles[j].tag = "h3" => ~includes(doc.articles[j].text, phrase)
    => extracted.found = <<>>

\* C14: a document whose only navigation entry has another date, with a
\* heading and a paper entry under dl#articles, gave the empty list
C14_Witness ==
    /\ extracted.done
    /\ Len(doc.nav) = 1
    /\ matchedEntry = 0
    /\ \E j \in 1..Len(doc.articles) : doc.articles[j].tag = "h3"
    /\ \E j \in 1..Len(doc.articles) : abstractLinks(doc.articles[j]) # {}
    /\ extracted.found = <<>>

\* C15: the list returned is the identifiers of the paper entries with an
\* abstract link that follow the matched heading, in document order; the
\* siblings between them add nothing and change no order
C15_DocumentOrder ==
    extracted.done /\ matchedHeading # 0
        => extracted.found = entriesUnder(matchedHeading)

\* C15: two entries with a description between them gave their two
\* identifiers in the order of the document
C15_Witness ==
    /\ extracted.done
    /\ matchedHeading = 1
    /\ Len(doc.articles) = 4
    /\ doc.articles[3].tag = "dd"
    /\ abstractLinks(doc.articles[2]) # {}
    /\ abstractLinks(doc.articles[4]) # {}
    /\ identifierOf(doc.articles[2]) # identifierOf(doc.articles[4])
    /\ extracted.found = <<identifierOf(doc.articles[2]), identifierOf(doc.articles[4])>>

\* the positions of the paper entries with an abstract link outside the
\* section of heading h: before h, or behind the next heading
outsideSection(h) ==
    {j \in 1..Len(doc.articles) :
        /\ j < h \/ j > sectionEnd(h)
        /\ doc.articles[j].tag = "dt"
        /\ abstractLinks(doc.articles[j]) # {}}

\* C16: an identifier is returned only with a matched heading; the
\* identifier of an entry before the matched heading or behind the next
\* heading is returned only if an entry of the section has it too
C16_StopsAtNextHeading ==
    extracted.done /\ extracted.found # <<>>
        => LET h == matchedHeading
               inside == entriesUnder(h)
           IN  /\ h # 0
               /\ \A j \in outsideSection(h) :
                     \A k \in 1..Len(extracted.found) :
                        extracted.found[k] = identifierOf(doc.articles[j])
                            => \E m \in 1..Len(inside) : inside[m] = extracted.found[k]

\* C16: of two entries, one in the section of the matched heading and one
\* behind the next heading, only the first was returned
C16_Witness ==
    /\ extracted.done
    /\ matchedHeading = 1
    /\ Len(doc.articles) = 4
    /\ doc.articles[3].tag = "h3"
    /\ abstractLinks(doc.articles[2]) # {}
    /\ abstractLinks(doc.articles[4]) # {}
    /\ identifierOf(doc.articles[2]) # identifierOf(doc.articles[4])
    /\ extracted.found = <<identifierOf(doc.articles[2])>>

\* the date text of the matched entry: its text before the parenthetical
dateTextOfEntry == trim(beforeParen(trim(doc.nav[matchedEntry])))

\* the first heading that contains the date text of the matched entry, 0 for none
headingOfDateText ==
    IF doc.parsed /\ matchedEntry # 0 THEN dateHeader(doc.articles, dateTextOfEntry) ELSE 0

\* C17: the phrase looked for in the headings is the date text of the
\* matched entry without its parenthetical, so a heading that contains the
\* date text is matched and its entries are returned
C17_PhraseWithoutParenthetical ==
    extracted.done /\ headingOfDateText # 0
        => extracted.found = entriesUnder(headingOfDateText)

\* whether a date phrase found in a text is the date t
isDate(m, t) ==
    /\ m.ok
    /\ parseInt(m.year) = t.year
    /\ monthNumber(m.monthStr) = t.month + 1
    /\ parseInt(m.day) = t.date

\* C28: whenever identifiers are returned, the heading the sibling walk
\* started from denotes the target date: the first date phrase of its text
\* (day, abbreviated month, 4-digit year) has the year, month and day of the
\* target date
C28_HeadingOfTargetDate ==
    extracted.done /\ extracted.found # <<>>
        => /\ matchedHeading # 0
           /\ isDate(dateMatch(doc.articles[matchedHeading].text, 1), targetDate)

\* the first navigation entry, in document order, whose date is the target
\* date, 0 for none
firstEntryOfDate ==
    LET of == {i \in 1..Len(doc.nav) : entryMatches(doc.nav[i], targetDate)}
    IN  IF of = {} THEN 0 ELSE CHOOSE i \in of : \A j \in of : i <= j

\* the headings under dl#articles whose text contains a phrase
headingsWith(phrase) ==
    {j \in 1..Len(doc.articles) :
        doc.articles[j].tag = "h3" /\ includes(doc.articles[j].text, phrase)}

\* C29: the entry used is the first navigation entry whose date is the
\* target date and the heading used is the first heading that contains the
\* canonical phrase of that entry: the list returned is the identifiers
\* under that heading (empty without such an entry or heading), whatever
\* later entries and later headings match too
C29_FirstEntryFirstHeading ==
    extracted.done /\ doc.parsed
        => LET e == firstEntryOfDate
           IN  IF e = 0 THEN extracted.found = <<>>
               ELSE LET hs == headingsWith(fullDateString(doc.nav[e]))
                    IN  IF hs = {} THEN extracted.found = <<>>
                        ELSE extracted.found =
                                entriesUnder(CHOOSE h \in hs : \A j \in hs : h <= j)

\* C29: two navigation entries have the target date and different canonical
\* phrases, two headings contain the phrase of the first entry and none
\* contains the phrase of the second, and the identifiers under the first of
\* the two headings were returned
C29_Witness ==
    /\ extracted.done
    /\ Len(doc.nav) = 2
    /\ entryMatches(doc.nav[1], targetDate)
    /\ entryMatches(doc.nav[2], targetDate)
    /\ headingsWith(fullDateString(doc.nav[1])) = {1, 3}
    /\ headingsWith(fullDateString(doc.nav[2])) = {}
    /\ extracted.found = <<identifierOf(doc.articles[2])>>
    /\ identifierOf(doc.articles[2]) # identifierOf(doc.articles[4])

\* whether the trimmed text of a navigation entry begins with a date phrase
\* <day> <3-letter month> <year> that is the date t
beginsWithDate(text, t) ==
    LET s == trim(text)
    IN  isDate(matchDateAt(s, 1, 2), t) \/ isDate(matchDateAt(s, 1, 1), t)

\* C30: an entry is matched only if its text begins with the date phrase, so
\* identifiers are returned only for a document with a navigation entry
\* whose text begins with a date phrase of the target date
C30_EntryBeginsWithDate ==
    extracted.done /\ extracted.found # <<>>
        => \E i \in 1..Len(doc.nav) : beginsWithDate(doc.nav[i], targetDate)

\* whether the date phrase of a navigation entry is malformed: its date text
\* has no <day> <month> <year> pattern, or the month token of the pattern is
\* none of the twelve names of the table
malformed(text) ==
    LET m == dateMatch(trim(beforeParen(trim(text))), 1)
    IN  ~m.ok \/ \A i \in 1..Len(Months) : Months[i] # m.monthStr

\* the document without its navigation entries of a malformed date phrase
withoutMalformed(d) ==
    [d EXCEPT !.nav = SelectSeq(d.nav, LAMBDA text : ~malformed(text))]

\* C31: a navigation entry with a malformed date phrase is never the matched
\* entry, and it is skipped: the extraction returns what it returns for the
\* document without the malformed entries
C31_MalformedSkipped ==
    extracted.done /\ doc.parsed
        => /\ matchedEntry # 0 => ~malformed(doc.nav[matchedEntry])
           /\ extracted.found = extractArxivIdsForDate(withoutMalformed(doc), targetDate)

\* C31: behind an entry with a month name in the wrong letter case came an
\* entry of the target date, and the identifiers of its section were returned
C31_Witness ==
    /\ extracted.done
    /\ Len(doc.nav) = 2
    /\ malformed(doc.nav[1])
    /\ dateMatch(doc.nav[1], 1).ok
    /\ matchedEntry = 2
    /\ extracted.found # <<>>

\* the number of times x occurs in a list
occurrences(list, x) == Cardinality({k \in 1..Len(list) : list[k] = x})

\* the paper entries of the section of heading h whose first abstract link
\* ends in the path segment x
carriers(h, x) ==
    {j \in (h + 1)..(sectionEnd(h) - 1) :
        /\ doc.articles[j].tag = "dt"
        /\ abstractLinks(doc.articles[j]) # {}
        /\ identifierOf(doc.articles[j]) = x}

\* the identifiers returned and the last path segments of the first abstract
\* links of the paper entries of the document
identifiersInPlay ==
    {extracted.found[k] : k \in 1..Len(extracted.found)}
    \cup {identifierOf(doc.articles[j]) :
            j \in {i \in 1..Len(doc.articles) :
                    doc.articles[i].tag = "dt" /\ abstractLinks(doc.articles[i]) # {}}}

\* C32: no returned identifier is the empty text, and an identifier is
\* returned as many times as the section of the matched heading has paper
\* entries that carry it: an entry without an abstract link, or whose
\* abstract link ends in an empty path segment, adds nothing and does not end
\* the walk, and an identifier carried by k entries is returned k times
C32_WalkCollects ==
    extracted.done /\ matchedHeading # 0
        => LET h == matchedHeading
           IN  /\ \A k \in 1..Len(extracted.found) : extracted.found[k] # <<>>
               /\ \A x \in identifiersInPlay \ {<<>>} :
                     occurrences(extracted.found, x) = Cardinality(carriers(h, x))

\* C32: between two entries that carry the same identifier stood an entry
\* whose abstract link ends in an empty path segment, and the identifier was
\* returned twice
C32_Witness ==
    /\ extracted.done
    /\ matchedHeading = 1
    /\ Len(doc.articles) = 4
    /\ abstractLinks(doc.articles[3]) # {}
    /\ identifierOf(doc.articles[3]) = <<>>
    /\ abstractLinks(doc.articles[2]) # {}
    /\ identifierOf(doc.articles[2]) # <<>>
    /\ abstractLinks(doc.articles[4]) # {}
    /\ identifierOf(doc.articles[4]) = identifierOf(doc.articles[2])
    /\ extracted.found = <<identifierOf(doc.articles[2]), identifierOf(doc.articles[2])>>

(***************************************************************************)
(* Properties of the serialization with and without retrieval.             *)
(***************************************************************************)
\* the representation was produced: marshalPapers has returned its text
produced == mstage = "marshalled"

\* how many papers of the list have the field unset
unsetIn(l, field) == Cardinality({i \in 1..Len(l) : ~Truthy(l[i][field])})

\* the paper is the paper handed over, but for the fields that were unset
keptWhereSet(p, q) ==
    /\ p.arxivId = q.arxivId
    /\ Truthy(q._abstract) => p._abstract = q._abstract
    /\ Truthy(q._text) => p._text = q._text

\* fetchData false: no retrieval is invoked, the entities are as they were
\* handed over and the representation is the text of that list
marshalWithoutRetrieval ==
    produced /\ ~given.fetchData
        => /\ fetches = [getArxivAbstract |-> 0, extractPaperText |-> 0]
           /\ papers = given.papers
           /\ wire = marshalPapers(given.papers)

\* C33: with fetchData true a representation is produced only after the
\* callback of every paper has returned from abstract() and from text(),
\* one retrieval was invoked for every field that was unset, the fields
\* that were set are as handed over, the representation is the text of the
\* list as it then is, and once a callback has thrown no representation
\* is produced; with fetchData false no retrieval is invoked and the
\* papers are as handed over
C33_FetchResolvesAll ==
    /\ given.fetchData
          => /\ anyFailed(awaiting) => ~produced /\ wire = <<>>
             /\ produced
                  => /\ Len(awaiting) = Len(given.papers)
                     /\ allSettled(awaiting)
                     /\ fetches = [getArxivAbstract |-> unsetIn(given.papers, "_abstract"),
                                   extractPaperText |-> unsetIn(given.papers, "_text")]
                     /\ Len(papers) = Len(given.papers)
                     /\ \A i \in 1..Len(papers) : keptWhereSet(papers[i], given.papers[i])
                     /\ wire = marshalPapers(papers)
    /\ marshalWithoutRetrieval

\* C33: of two papers handed over with fetchData true, one with its abstract
\* set and one with both fields unset, the representation was produced
\* after one retrieval of an abstract and two of a text, and one text was
\* retrieved as the empty text
C33_Witness ==
    /\ produced
    /\ given.fetchData
    /\ Len(given.papers) = 2
    /\ \E i \in 1..2 : Truthy(given.papers[i]._abstract) /\ ~Truthy(given.papers[i]._text)
    /\ \E i \in 1..2 : ~Truthy(given.papers[i]._abstract) /\ Truthy(papers[i]._abstract)
    /\ fetches = [getArxivAbstract |-> 1, extractPaperText |-> 2]
    /\ \E i \in 1..2 : papers[i]._text.s = <<>>
    /\ \E i \in 1..2 : papers[i]._text.s # <<>>

\* C33: a retrieval has failed while another callback was still suspended
C33_WitnessFailed ==
    /\ given.fetchData
    /\ mstage = "rejected"
    /\ anyFailed(awaiting)
    /\ \E i \in 1..Len(awaiting) : awaiting[i] \in {"abstract", "text"}

(***************************************************************************)
(* Properties of the scheduled process.                                    *)
(***************************************************************************)
\* the run is suspended in a request to the oracle
inOracle(run) == run.pc \in {"classify", "compare", "summarize"}

\* C34: the run made at load and the run made by the cron handler never
\* overlap: they are never both under way, so never both in a request to
\* the oracle, and tweet is not invoked twice for the listing of one day
C34_RunsNeverOverlap ==
    /\ ~(active(runs["load"]) /\ active(runs["cron"]))
    /\ ~(inOracle(runs["load"]) /\ inOracle(runs["cron"]))
    /\ \A i, j \in 1..Len(tweeted) : tweeted[i].today = tweeted[j].today => i = j

(***************************************************************************)
(* Properties of the earliest iteration of the workflow.                   *)
(***************************************************************************)
\* the run has ended and none of its awaits was rejected
endedWithoutRejection ==
    /\ early.pc \in {"done", "failed"}
    /\ early.error \in {"", "TypeError"}

\* C35: a run of part_001 whose listing holds no identifier, or none whose
\* abstract is available and which the classifier accepts, ends without an
\* error and without a call of the summarization
C35_NoWinnerEndsGracefully ==
    endedWithoutRejection /\ early.accepted = 0
        => /\ early.pc = "done"
           /\ early.error = ""
           /\ early.summarize = 0

(***************************************************************************)
(* Properties of a failed call on the Paper entity.                        *)
(***************************************************************************)
\* this step completes a call that throws
failsNow ==
    /\ Len(returned') = Len(returned) + 1
    /\ returned'[Len(returned')].throws

\* this step issues a call of the method behind a call of the method that
\* threw, while no call of the method has returned a text
callsAgainAfterFailure(method) ==
    /\ issued' = issued + 1
    /\ \/ Call(issued + 1, method) \in inflight'
       \/ /\ Len(returned') = Len(returned) + 1
          /\ returned'[Len(returned')].method = method
    /\ \E i \in 1..Len(returned) : returned[i].method = method /\ returned[i].throws
    /\ \A i \in 1..Len(returned) : returned[i].method = method => returned[i].throws

\* C36: a call of abstract() or text() that throws leaves the identifier
\* and both cached fields as they were, and a call of the same accessor
\* behind it, the field never having been resolved, finds the field unset
\* and invokes the retrieval again
C36_FailureNotCached ==
    [][/\ failsNow => ent' = ent
       /\ callsAgainAfterFailure("abstract")
            => /\ ent._abstract = JSString(<<>>)
               /\ Call(issued + 1, "abstract") \in inflight'
               /\ fetches'.getArxivAbstract = fetches.getArxivAbstract + 1
       /\ callsAgainAfterFailure("text")
            => /\ ent._text = JSString(<<>>)
               /\ Call(issued + 1, "text") \in inflight'
               /\ fetches'.extractPaperText = fetches.extractPaperText + 1]_vars

\* C36: the text is resolved, abstract() has thrown and was called again:
\* the retrieval of the abstract was invoked a second time, the abstract is
\* unset and the text is the one resolved before
C36_Witness ==
    /\ Len(returned) = 2
    /\ returned[1].method = "text" /\ ~returned[1].throws /\ returned[1].value.s # <<>>
    /\ returned[2].method = "abstract" /\ returned[2].throws
    /\ inflight = {Call(3, "abstract")}
    /\ fetches.getArxivAbstract = 2
    /\ ent = [NewPaper(1, ent.arxivId) EXCEPT !._text = returned[1].value]

(***************************************************************************)
(* Properties of a run whose retrieval of an abstract fails.               *)
(***************************************************************************)
\* C37: when the retrieval of a candidate's abstract fails the run is
\* aborted: no summarization was or will be called, nothing was or will be
\* published, and no later candidate is taken, whatever leader there is
C37_AbstractFailureAborts ==
    /\ [](error = "abstract"
            => /\ pc = "aborted"
               /\ calls.summarize = 0
               /\ calls.tweet = 0
               /\ tweets = <<>>)
    /\ [][error = "abstract"
            => /\ processed' = processed
               /\ calls' = calls
               /\ tweets' = tweets]_vars

\* C37: with a leader and a candidate still to come, the retrieval of the
\* second candidate's abstract failed and the run is aborted
C37_Witness ==
    /\ error = "abstract"
    /\ pc = "aborted"
    /\ Len(arxivIds) = 3
    /\ processed = 2
    /\ leadingPaper # NULL
    /\ leadingPaper.ref = 1
    /\ calls.summarize = 0
    /\ tweets = <<>>

(***************************************************************************)
(* Termination of a run and its use of the collaborators.                  *)
(***************************************************************************)
\* the run has returned or was aborted
terminated == pc \in {"done", "aborted"}

\* the walk has returned
walked == walk.pc \in {"done", "failed"}

\* C38: every run reaches a terminal state, with at most one call of the
\* classifier per candidate taken, a call of the comparator only for an
\* accepted candidate that met a leader, at most two requests per call of
\* the comparator, and at most one call of summarize; and the sibling walk
\* of the extraction returns: each iteration moves one sibling on, the walk
\* never leaves the children of dl#articles, and it returns what the
\* loop collects from its first sibling on
C38_RunTerminates ==
    /\ <>(walked /\ terminated)
    /\ [](/\ calls.alignedWithCentML <= processed
          /\ processed <= Len(arxivIds)
          /\ accepted = {} => calls.mostImpactful = 0
          /\ accepted # {} => calls.mostImpactful <= Cardinality(accepted) - 1
          /\ calls.comparatorRequests <= 2 * calls.mostImpactful
          /\ calls.summarize <= 1)
    /\ [](walk.pc = "walking"
            => /\ walk.from <= walk.at
               /\ walk.at = Len(doc.articles) + 1
               /\ Len(walk.ids) <= walk.at - walk.from)
    /\ [][walk.pc = "walking"
            => \/ walk'.pc = "walking" /\ walk'.at = walk.at + 1
               \/ /\ walk'.pc = "done"
                  /\ walk'.ids = collectIds(doc.articles, walk.from, <<>>)]_vars
    /\ [](pc \notin {"start", "aborted"} => walk.pc = "done" /\ spelled(arxivIds) = walk.ids)

\* C38: a walk that collected three identifiers has returned, and the run
\* over these three candidates, all accepted, has ended after three
\* classifier calls, two comparisons and one summarization
C38_Witness ==
    /\ pc = "done"
    /\ walk.pc = "done"
    /\ Len(walk.ids) = 3
    /\ spelled(arxivIds) = walk.ids
    /\ accepted = {1, 2, 3}
    /\ calls.alignedWithCentML = 3
    /\ calls.mostImpactful = 2
    /\ calls.comparatorRequests = 2
    /\ calls.summarize = 1

\* C38: the walk has passed a description, an entry without abstract link
\* and an entry whose identifier it has collected
C38_WitnessWalk ==
    /\ walk.pc = "walking"
    /\ walk.at - walk.from = 3
    /\ Len(walk.ids) = 1
    /\ \E i \in walk.from..(walk.at - 1) : doc.articles[i].tag = "dd"
    /\ \E i \in walk.from..(walk.at - 1) :
          doc.articles[i].tag = "dt" /\ abstractHref(doc.articles[i].links, 1) = <<>>

=============================================================================
